---- MODULE Spec2Model ----
(***************************************************************************)
(* The chain-state / UTXO database component, server/db.py (class DB).     *)
(*                                                                         *)
(* Bytes are integers 0..255, byte strings are sequences of them.  The     *)
(* key-value store is a function from keys (byte strings) to values, its   *)
(* prefix iterator walks the keys in ascending byte order.  The flat files *)
(* are byte sequences (headers, hashesNNNN) or item sequences (txcount).   *)
(***************************************************************************)
EXTENDS Integers, Sequences, FiniteSets, TLC

(* ------------------------------ bounds -------------------------------- *)
\* Greatest chain height of the model.
MaxHeight == 2
\* Greatest flush counter a persisted database starts with.
MaxFlush == 2
\* Greatest number of history and undo keys a persisted database starts with.
MaxKeys == 2
\* env.reorg_limit, the configured reorganisation depth.
REORG_LIMIT == 1

(* ------------------------ program constants --------------------------- *)
\* coin.HEADER_LEN (80 in the coin classes), scaled down.
HEADER_LEN == 2
\* Length of a transaction hash (the literal 32 of fs_update and
\* fs_tx_hash), scaled down.
HASH_LEN == 2
\* self.tx_hash_file_size (16 MiB, a multiple of the hash length), scaled
\* down to two hashes a shard.
tx_hash_file_size == 4
\* Length of a hash168 (the literal 21 of db_hash168), scaled down.
ADDR_LEN == 1
\* Length of the compressed tx hash of an owner-lookup key (tx_hash[:4]),
\* scaled down.
COMPRESSED_LEN == 1
\* DB.DB_VERSIONS
DB_VERSIONS == {3}
\* coin.GENESIS_HASH
GENESIS_HASH == "genesis"
\* A genesis hash of some other coin.
OTHER_GENESIS == "other"
\* Key prefixes b'H', b'U' and the key b'state', as bytes.
PREFIX_H == <<72>>
PREFIX_U == <<85>>
\* Key prefixes b'h' (owner lookup) and b'u' (value records), as bytes.
PREFIX_hash168 == <<104>>
PREFIX_utxo == <<117>>
STATE_KEY == <<115, 116, 97, 116, 101>>
\* Address fingerprints (hash168), scaled down to one byte.
Addrs == {<<1>>, <<2>>}

VARIABLES
    db_exists,     \* the key-value database exists on disk
    kv,            \* the persisted key-value store: key -> value
    headers_file,  \* the file 'headers': [exists, data]
    txcount_file,  \* the file 'txcount': [exists, data], data in items
    hash_files,    \* the files 'hashesNNNN': shard number -> bytes
    db,            \* self.db, the open store handle
    self,          \* the chain state attributes of the DB object
    tx_counts,     \* self.tx_counts
    bp,            \* attributes the block processor keeps on the object
    pc,            \* position of the process
    err,           \* the exception that ended the last operation
    batch,         \* operations put in the open write batch
    todo,          \* keys clean_db has still to put in the batch
    pre,           \* store and counters as clean_db found them
    written,       \* the attributes write_state last serialized
    appended,      \* the header last appended for each height
    ret            \* the last operation and its result

vars == <<db_exists, kv, headers_file, txcount_file, hash_files, db, self,
          tx_counts, bp, pc, err, batch, todo, pre, written, appended, ret>>

(* ------------------------------ bytes --------------------------------- *)
Min(a, b) == IF a < b THEN a ELSE b

RECURSIVE pack_be(_, _)
\* struct.pack('>H', n) and pack('>I', n): n in w big-endian bytes.
pack_be(n, w) ==
    IF w = 0 THEN <<>> ELSE pack_be(n \div 256, w - 1) \o <<n % 256>>

RECURSIVE unpack_be(_)
\* struct.unpack('>H', bs) and unpack('>I', bs).
unpack_be(bs) ==
    IF bs = <<>> THEN 0
    ELSE unpack_be(SubSeq(bs, 1, Len(bs) - 1)) * 256 + bs[Len(bs)]

RECURSIVE pack_le(_, _)
\* struct.pack('<H', n), pack('<I', n), pack('<Q', n): little-endian.
pack_le(n, w) ==
    IF w = 0 THEN <<>> ELSE <<n % 256>> \o pack_le(n \div 256, w - 1)

RECURSIVE unpack_le(_)
\* struct.unpack('<H', bs), unpack('<I', bs), unpack('<Q', bs).
unpack_le(bs) ==
    IF bs = <<>> THEN 0 ELSE bs[1] + 256 * unpack_le(Tail(bs))

\* key[-n:]
Suffix(key, n) == SubSeq(key, Len(key) - n + 1, Len(key))

\* b'H' + hash168 + pack('>H', flush_id)
history_key(hash168, flush_id) == PREFIX_H \o hash168 \o pack_be(flush_id, 2)

\* b'U' + pack('>I', height)
undo_key(height) == PREFIX_U \o pack_be(height, 4)

\* b'h' + tx_hash[:4] + pack('<H', idx) + pack('<I', tx_num)
hash168_key(tx_hash, idx, tx_num) ==
    PREFIX_hash168 \o SubSeq(tx_hash, 1, COMPRESSED_LEN) \o pack_le(idx, 2)
        \o pack_le(tx_num, 4)

\* b'u' + hash168 + pack('<H', idx) + pack('<I', tx_num)
utxo_key(hash168, idx, tx_num) ==
    PREFIX_utxo \o hash168 \o pack_le(idx, 2) \o pack_le(tx_num, 4)

(* ------------------------ key-value store ----------------------------- *)
EmptyStore == [k \in {} |-> <<>>]

HasPrefix(key, prefix) ==
    /\ Len(key) >= Len(prefix)
    /\ SubSeq(key, 1, Len(prefix)) = prefix

\* Byte order of two distinct keys.
LexLess(a, b) ==
    \E i \in 1..(Min(Len(a), Len(b)) + 1) :
        /\ \A j \in 1..(i - 1) : a[j] = b[j]
        /\ \/ i > Len(a) /\ i <= Len(b)
           \/ i <= Len(a) /\ i <= Len(b) /\ a[i] < b[i]

RECURSIVE SortKeys(_)
SortKeys(S) ==
    IF S = {} THEN <<>>
    ELSE LET m == CHOOSE x \in S : \A y \in S : y = x \/ LexLess(x, y)
         IN  <<m>> \o SortKeys(S \ {m})

\* db.iterator(prefix=prefix): the keys under the prefix, ascending.
iterator(store, prefix) ==
    SortKeys({k \in DOMAIN store : HasPrefix(k, prefix)})

\* One operation of a write batch on the store.
ApplyOp(store, op) ==
    IF op.op = "delete"
    THEN [k \in DOMAIN store \ {op.key} |-> store[k]]
    ELSE [k \in DOMAIN store \cup {op.key} |->
             IF k = op.key THEN op.value ELSE store[k]]

RECURSIVE ApplyBatch(_, _)
\* The commit of a write batch: all its operations, in order, at once.
ApplyBatch(store, ops) ==
    IF ops = <<>> THEN store
    ELSE ApplyBatch(ApplyOp(store, Head(ops)), Tail(ops))

(* ------------------------- chain state record ------------------------- *)
\* The attributes before read_state has set any of them.
Blank ==
    [db_height |-> -1, db_tx_count |-> 0, db_tip |-> <<>>, db_version |-> 0,
     flush_count |-> 0, utxo_flush_count |-> 0, wall_time |-> 0,
     first_sync |-> FALSE]

\* The tip hash and sync time of a chain of the given height.
TipOf(h) == <<h + 1>>
WallOf(h) == 10 * (h + 1)

\* repr(state).encode(): the dict literal, its items in insertion order.
repr(items) == [kind |-> "dict", items |-> items]

\* ast.literal_eval(state.decode()) of a dict literal: the dict.
literal_eval(raw) ==
    LET names == {raw.items[i][1] : i \in DOMAIN raw.items}
    IN  [n \in names |->
            raw.items[CHOOSE i \in DOMAIN raw.items :
                          /\ raw.items[i][1] = n
                          /\ \A j \in DOMAIN raw.items :
                                 raw.items[j][1] = n => j <= i][2]]

\* A slip: height and tx_count are written under each other's key.
write_state_swapped(s) ==
    [op |-> "put", key |-> STATE_KEY,
     value |-> repr(<< <<"genesis", GENESIS_HASH>>,
                       <<"height", s.db_tx_count>>,
                       <<"tx_count", s.db_height>>,
                       <<"tip", s.db_tip>>,
                       <<"flush_count", s.flush_count>>,
                       <<"utxo_flush_count", s.utxo_flush_count>>,
                       <<"wall_time", s.wall_time>>,
                       <<"first_sync", s.first_sync>>,
                       <<"db_version", s.db_version>> >>)]

\* write_state: the put of the serialized state dict.
write_state(s) ==
    [op |-> "put", key |-> STATE_KEY,
     value |-> repr(<< <<"genesis", GENESIS_HASH>>,
                       <<"height", s.db_height>>,
                       <<"tx_count", s.db_tx_count>>,
                       <<"tip", s.db_tip>>,
                       <<"flush_count", s.flush_count>>,
                       <<"utxo_flush_count", s.utxo_flush_count>>,
                       <<"wall_time", s.wall_time>>,
                       <<"first_sync", s.first_sync>>,
                       <<"db_version", s.db_version>> >>)]

\* The attributes read_state sets from the dict after the version and
\* genesis checks, in the order of its assignments.
StateFields ==
    << <<"height", "db_height">>, <<"tx_count", "db_tx_count">>,
       <<"tip", "db_tip">>, <<"flush_count", "flush_count">>,
       <<"utxo_flush_count", "utxo_flush_count">>,
       <<"wall_time", "wall_time">>, <<"first_sync", "first_sync">> >>

RECURSIVE AssignFields(_, _, _)
\* self.db_height = state['height'] ... self.first_sync = state[...]:
\* a missing key raises KeyError after the assignments before it.
AssignFields(s, state, i) ==
    IF i > Len(StateFields) THEN [self |-> s, err |-> "none"]
    ELSE IF StateFields[i][1] \notin DOMAIN state
         THEN [self |-> s, err |-> "KeyError"]
         ELSE AssignFields([s EXCEPT ![StateFields[i][2]] =
                                state[StateFields[i][1]]], state, i + 1)

\* A slip: read_state without its final check.
FlushCheck_skipped(r) == r

\* The final check of read_state.
FlushCheck(r) ==
    IF r.err = "none" /\ r.self.flush_count < r.self.utxo_flush_count
    THEN [r EXCEPT !.err = "DBError"]
    ELSE r

\* read_state once the stored value has been evaluated to a dict.
read_dict(s, state) ==
    IF "db_version" \notin DOMAIN state
    THEN [self |-> s, err |-> "KeyError"]
    ELSE IF state["db_version"] \notin DB_VERSIONS
    THEN [self |-> [s EXCEPT !.db_version = state["db_version"]],
          err |-> "DBError"]
    ELSE IF "genesis" \notin DOMAIN state
    THEN [self |-> [s EXCEPT !.db_version = state["db_version"]],
          err |-> "KeyError"]
    ELSE IF state["genesis"] # GENESIS_HASH
    THEN [self |-> [s EXCEPT !.db_version = state["db_version"]],
          err |-> IF "genesis_hash" \in DOMAIN state
                  THEN "DBError" ELSE "KeyError"]
    ELSE FlushCheck(AssignFields(
             [s EXCEPT !.db_version = state["db_version"]], state, 1))

\* read_state on a handle with the given is_new: the attributes it leaves
\* and the exception it raises ("none" when it returns).
read_state(is_new, s, store) ==
    IF is_new
    THEN FlushCheck([self |-> [db_height |-> -1, db_tx_count |-> 0,
                               db_tip |-> <<0>>, db_version |-> 3,
                               flush_count |-> 0, utxo_flush_count |-> 0,
                               wall_time |-> 0, first_sync |-> TRUE],
                     err |-> "none"])
    ELSE IF STATE_KEY \notin DOMAIN store \/ store[STATE_KEY].kind = "empty"
    THEN [self |-> s, err |-> "DBError"]
    ELSE IF store[STATE_KEY].kind = "malformed"
    THEN [self |-> s, err |-> "SyntaxError"]
    ELSE IF store[STATE_KEY].kind # "dict"
    THEN [self |-> s, err |-> "DBError"]
    ELSE read_dict(s, literal_eval(store[STATE_KEY]))

(* ------------------------------ recovery ------------------------------ *)
\* A slip: the flush id is decoded little-endian.
excess_history_keys_le(store, utxo_flush_count) ==
    SelectSeq(iterator(store, PREFIX_H),
              LAMBDA key : Suffix(key, 2)[1] + 256 * Suffix(key, 2)[2]
                               > utxo_flush_count)

\* excess_history_keys: the history keys whose flush id exceeds
\* self.utxo_flush_count as it is when the scan runs.
excess_history_keys(store, utxo_flush_count) ==
    SelectSeq(iterator(store, PREFIX_H),
              LAMBDA key : unpack_be(Suffix(key, 2)) > utxo_flush_count)

RECURSIVE UndoScan(_, _)
\* The loop of stale_undo_keys: collect keys until one is above the cutoff.
UndoScan(keys, cutoff) ==
    IF keys = <<>> THEN <<>>
    ELSE IF unpack_be(Suffix(Head(keys), 4)) > cutoff THEN <<>>
    ELSE <<Head(keys)>> \o UndoScan(Tail(keys), cutoff)

\* A slip: the loop breaks at the cutoff, not above it.
stale_undo_keys_below(store, db_height) ==
    UndoScan(iterator(store, PREFIX_U), db_height - REORG_LIMIT - 1)

\* A slip: the cutoff is one too high.
stale_undo_keys_above(store, db_height) ==
    UndoScan(iterator(store, PREFIX_U), db_height - REORG_LIMIT + 1)

\* A slip: the scan is of the prefix b'u', the value records.
stale_undo_keys_u(store, db_height) ==
    UndoScan(iterator(store, PREFIX_utxo), db_height - REORG_LIMIT)

\* stale_undo_keys
stale_undo_keys(store, db_height) ==
    UndoScan(iterator(store, PREFIX_U), db_height - REORG_LIMIT)

\* clean_db up to the write batch, with the attributes s as the test of
\* the flush counters left them.
clean_scan(s, store, unclean) ==
    [self |-> s,
     history_keys |-> IF unclean
                      THEN excess_history_keys(store, s.utxo_flush_count)
                      ELSE <<>>,
     undo_keys |-> stale_undo_keys(store, s.db_height)]

\* clean_db up to the write batch: the attributes it leaves and the keys
\* it is going to delete.
clean_db(s, store) ==
    IF s.flush_count > s.utxo_flush_count
    THEN clean_scan([s EXCEPT !.utxo_flush_count = s.flush_count], store,
                    TRUE)
    ELSE clean_scan(s, store, FALSE)

\* A slip: the key is deleted from the store at once, outside the batch.
batch_delete_direct(store, b, key) ==
    [kv |-> ApplyOp(store, [op |-> "delete", key |-> key]), batch |-> b]

\* batch_delete(key) inside the with block: the store and the batch after.
batch_delete(store, b, key) ==
    [kv |-> store, batch |-> Append(b, [op |-> "delete", key |-> key])]

(* ----------------------------- flat files ----------------------------- *)
NoFile == [exists |-> FALSE, data |-> <<>>]

\* Header of the block at height h, of fork v, and hash of transaction n
\* of fork v; the first byte is never zero.
Header(h, v) == [i \in 1..HEADER_LEN |-> IF i = 1 THEN h + 1 ELSE v]
TxHash(n, v) == [i \in 1..HASH_LEN |-> IF i = 1 THEN n + 1 ELSE v]

RECURSIVE Join(_)
\* b''.join(parts)
Join(parts) == IF parts = <<>> THEN <<>> ELSE Head(parts) \o Join(Tail(parts))

\* f.seek(pos); f.write(bytes): bytes past the end extend the file, a seek
\* past the end leaves a hole of zeros.
FileWrite(data, pos, bytes) ==
    IF bytes = <<>> THEN data
    ELSE [i \in 1..(IF Len(data) > pos + Len(bytes)
                    THEN Len(data) ELSE pos + Len(bytes)) |->
             IF i > pos /\ i <= pos + Len(bytes) THEN bytes[i - pos]
             ELSE IF i <= Len(data) THEN data[i]
             ELSE 0]

\* f.seek(pos); f.read(n)
FileRead(data, pos, n) == SubSeq(data, pos + 1, Min(pos + n, Len(data)))

\* open_file(filename, create): the file, or FileNotFoundError.
open_file(f, create) ==
    IF f.exists THEN [file |-> f, err |-> "none"]
    ELSE IF create THEN [file |-> [exists |-> TRUE, data |-> <<>>],
                         err |-> "none"]
    ELSE [file |-> f, err |-> "FileNotFoundError"]

RECURSIVE WriteHashes(_, _, _)
\* The while loop of fs_update: the hash bytes go to consecutive shard
\* files from file_pos on.
WriteHashes(files, file_pos, hashes) ==
    IF hashes = <<>> THEN files
    ELSE LET file_num == file_pos \div tx_hash_file_size
             offset == file_pos % tx_hash_file_size
             size == Min(Len(hashes), tx_hash_file_size - offset)
             old == IF file_num \in DOMAIN files THEN files[file_num]
                    ELSE <<>>
             new == FileWrite(old, offset, SubSeq(hashes, 1, size))
         IN  WriteHashes([n \in DOMAIN files \cup {file_num} |->
                             IF n = file_num THEN new ELSE files[n]],
                         file_pos + size,
                         SubSeq(hashes, size + 1, Len(hashes)))

\* A slip: the headers are sought with the item size of the tx counts.
fs_write_headers_itemsize(data, fs_height, headers) ==
    FileWrite(data, fs_height + 1, Join(headers))

\* A slip: the headers are written at the end of the file, wherever it is.
fs_write_headers_at_end(data, fs_height, headers) == data \o Join(headers)

\* fs_update, "First the headers": seek to the record after fs_height and
\* write the joined headers.
fs_write_headers(data, fs_height, headers) ==
    FileWrite(data, (fs_height + 1) * HEADER_LEN, Join(headers))

\* A slip: the tx counts are sought one item too far.
fs_write_txcounts_skip(data, fs_height, txc) ==
    FileWrite(data, fs_height + 2, SubSeq(txc, fs_height + 2, Len(txc)))

\* fs_update, "Then the tx counts": seek to the item after fs_height and
\* write self.tx_counts[fs_height + 1:].
fs_write_txcounts(data, fs_height, txc) ==
    FileWrite(data, fs_height + 1, SubSeq(txc, fs_height + 2, Len(txc)))

\* A slip: fs_update without the assertion on len(self.tx_counts).
fs_asserts_hashes_only(b, txc, fs_height) ==
    Len(b.tx_hashes) = Len(b.headers)

\* The two assertions fs_update makes before it writes.
fs_asserts(b, txc, fs_height) ==
    /\ Len(b.tx_hashes) = Len(b.headers)
    /\ Len(txc) = fs_height + Len(b.headers) + 1

\* fs_update(fs_height, headers, block_tx_hashes) on an object whose
\* attributes are tx_counts, self.headers and self.tx_hashes: the files it
\* leaves and the exception it raises.
fs_update(fs_height, headers, block_tx_hashes, txc, b, hf, tf, shards) ==
    LET blocks_done == Len(b.headers)
        new_height == fs_height + blocks_done
        prior_tx_count == IF fs_height >= 0 THEN txc[fs_height + 1] ELSE 0
        cur_tx_count == IF txc # <<>> THEN txc[Len(txc)] ELSE 0
        txs_done == cur_tx_count - prior_tx_count
        hf1 == [hf EXCEPT !.data =
                   fs_write_headers(hf.data, fs_height, headers)]
        tf1 == [tf EXCEPT !.data =
                   fs_write_txcounts(tf.data, fs_height, txc)]
        hashes == Join(Join(block_tx_hashes))
    IN  IF fs_height >= Len(txc)
        THEN [headers_file |-> hf, txcount_file |-> tf,
              hash_files |-> shards, err |-> "IndexError"]
        ELSE IF ~fs_asserts(b, txc, fs_height)
        THEN [headers_file |-> hf, txcount_file |-> tf,
              hash_files |-> shards, err |-> "AssertionError"]
        ELSE IF fs_height < -1
        THEN [headers_file |-> hf, txcount_file |-> tf,
              hash_files |-> shards, err |-> "OSError"]
        ELSE IF Len(hashes) % HASH_LEN # 0
                \/ Len(hashes) \div HASH_LEN # txs_done
        THEN [headers_file |-> hf1, txcount_file |-> tf1,
              hash_files |-> shards, err |-> "AssertionError"]
        ELSE [headers_file |-> hf1, txcount_file |-> tf1,
              hash_files |-> WriteHashes(shards,
                                         prior_tx_count * HASH_LEN, hashes),
              err |-> "none"]

\* A slip: read_headers without the comparison of disk_count and count.
read_headers_unchecked(start, count, db_height, data) ==
    IF start < 0 \/ count < 0
    THEN [err |-> "DBError", val |-> <<>>]
    ELSE IF Min(count, db_height + 1 - start) > 0
    THEN [err |-> "none",
          val |-> FileRead(data, start * HEADER_LEN,
                           Min(count, db_height + 1 - start) * HEADER_LEN)]
    ELSE [err |-> "none", val |-> <<>>]

\* read_headers(start, count) on header file data: the bytes it returns,
\* or DBError.
read_headers(start, count, db_height, data) ==
    LET disk_count == Min(count, db_height + 1 - start)
    IN  IF start < 0 \/ count < 0 \/ disk_count # count
        THEN [err |-> "DBError", val |-> <<>>]
        ELSE IF disk_count # 0
        THEN [err |-> "none",
              val |-> FileRead(data, start * HEADER_LEN,
                               disk_count * HEADER_LEN)]
        ELSE [err |-> "none", val |-> <<>>]

RECURSIVE bisect_right_from(_, _, _, _)
\* The loop of bisect.bisect_right(a, x) between lo and hi (0-based).
bisect_right_from(a, x, lo, hi) ==
    IF lo >= hi THEN lo
    ELSE LET mid == (lo + hi) \div 2
         IN  IF x < a[mid + 1] THEN bisect_right_from(a, x, lo, mid)
             ELSE bisect_right_from(a, x, mid + 1, hi)

RECURSIVE bisect_left_from(_, _, _, _)
\* The loop of bisect.bisect_left(a, x) between lo and hi (0-based).
bisect_left_from(a, x, lo, hi) ==
    IF lo >= hi THEN lo
    ELSE LET mid == (lo + hi) \div 2
         IN  IF a[mid + 1] < x THEN bisect_left_from(a, x, mid + 1, hi)
             ELSE bisect_left_from(a, x, lo, mid)

\* A slip: bisect_left where bisect_right is meant.
bisect_left(a, x) == bisect_left_from(a, x, 0, Len(a))

\* bisect_right(self.tx_counts, tx_num)
bisect_right(a, x) == bisect_right_from(a, x, 0, Len(a))

\* A slip: the height after db_height is taken to be on disk.
not_on_disk_beyond(tx_height, db_height) == tx_height > db_height + 1

\* fs_tx_hash: "if tx_height > self.db_height".
not_on_disk(tx_height, db_height) == tx_height > db_height

\* A hash as fs_tx_hash returns it: None, or the bytes read.
NoneHash == [none |-> TRUE, bytes |-> <<>>]
SomeHash(bytes) == [none |-> FALSE, bytes |-> bytes]

\* fs_tx_hash(tx_num) after the bisection: None, or the hash read from
\* the shard the position falls in.
fs_tx_hash_at(tx_num, tx_height, db_height, shards) ==
    IF not_on_disk(tx_height, db_height)
    THEN [err |-> "none", hash |-> NoneHash, height |-> tx_height,
          reads |-> {}]
    ELSE IF (tx_num * HASH_LEN) \div tx_hash_file_size \notin DOMAIN shards
    THEN [err |-> "FileNotFoundError", hash |-> NoneHash,
          height |-> tx_height, reads |-> {}]
    ELSE [err |-> "none",
          hash |-> SomeHash(FileRead(
                       shards[(tx_num * HASH_LEN) \div tx_hash_file_size],
                       (tx_num * HASH_LEN) % tx_hash_file_size, HASH_LEN)),
          height |-> tx_height,
          reads |-> {(tx_num * HASH_LEN) \div tx_hash_file_size}]

\* fs_tx_hash(tx_num): the pair (tx_hash, tx_height) it returns, the
\* exception it raises and the shard files it reads.
fs_tx_hash(tx_num, txc, db_height, shards) ==
    fs_tx_hash_at(tx_num, bisect_right(txc, tx_num), db_height, shards)

(* ------------------------------ queries ------------------------------- *)
\* What fs_tx_hash reads of the object: tx_counts, db_height and the shard
\* files.
FsOf(txc, db_height, shards) ==
    [tx_counts |-> txc, db_height |-> db_height, hash_files |-> shards]

\* fs_tx_hash(tx_num) on such an object.
fs_tx_hash_on(tx_num, fs) ==
    fs_tx_hash(tx_num, fs.tx_counts, fs.db_height, fs.hash_files)

\* A limit argument: None, or an int that is not negative.
NoLimit == [none |-> TRUE, n |-> 0]
Limit(n) == [none |-> FALSE, n |-> n]

\* A slip: no limit resolves to a limit of none.
resolve_limit_zero(limit) == IF limit.none THEN 0 ELSE limit.n

\* _resolve_limit(limit)
resolve_limit(limit) == IF limit.none THEN -1 ELSE limit.n

RECURSIVE frombytes(_)
\* array.array('I').frombytes(hist), hist a whole number of items of four
\* little-endian bytes.
frombytes(hist) ==
    IF Len(hist) < 4 THEN <<>>
    ELSE <<unpack_le(SubSeq(hist, 1, 4))>>
             \o frombytes(SubSeq(hist, 5, Len(hist)))

\* A generator about to start: nothing yielded, the limit resolved.
Started(limit) ==
    [out |-> <<>>, limit |-> limit, done |-> FALSE, err |-> "none"]

RECURSIVE history_items(_, _, _)
\* get_history: "yield self.fs_tx_hash(tx_num); limit -= 1", r being what
\* fs_tx_hash did, and on with the rest of the key's tx numbers.
history_yield(st, r, rest, fs) ==
    IF r.err # "none" THEN [st EXCEPT !.err = r.err, !.done = TRUE]
    ELSE history_items([st EXCEPT
                          !.out = Append(@, [hash |-> r.hash,
                                             height |-> r.height]),
                          !.limit = @ - 1],
                       rest, fs)

\* get_history: the loop over the tx numbers of one key.
history_items(st, items, fs) ==
    IF st.done \/ items = <<>> THEN st
    ELSE IF st.limit = 0 THEN [st EXCEPT !.done = TRUE]
    ELSE history_yield(st, fs_tx_hash_on(Head(items), fs), Tail(items), fs)

RECURSIVE history_loop(_, _, _, _)
\* get_history: the loop over the keys under the prefix.
history_loop(st, keys, store, fs) ==
    IF st.done \/ keys = <<>> THEN st
    ELSE history_loop(history_items(st, frombytes(store[Head(keys)]), fs),
                      Tail(keys), store, fs)

\* get_history(hash168, limit): the pairs it yields, in order, and the
\* exception that ends it.
get_history(hash168, limit, store, fs) ==
    history_loop(Started(resolve_limit(limit)),
                 iterator(store, PREFIX_H \o hash168), store, fs)

RECURSIVE utxos_loop(_, _, _, _)
\* get_utxos: the UTXO it yields for db_key, r being what fs_tx_hash did,
\* and on with the rest of the keys.
utxos_yield(st, db_key, r, rest, store, fs) ==
    IF r.err # "none" THEN [st EXCEPT !.err = r.err, !.done = TRUE]
    ELSE utxos_loop([st EXCEPT
                       !.out = Append(@,
                           [tx_num |-> unpack_le(Suffix(db_key, 4)),
                            tx_pos |-> unpack_le(SubSeq(Suffix(db_key, 6),
                                                        1, 2)),
                            tx_hash |-> r.hash,
                            height |-> r.height,
                            value |-> unpack_le(store[db_key])]),
                       !.limit = @ - 1],
                    rest, store, fs)

\* get_utxos: the loop over the keys under the prefix.
utxos_loop(st, keys, store, fs) ==
    IF st.done \/ keys = <<>> THEN st
    ELSE IF st.limit = 0 THEN [st EXCEPT !.done = TRUE]
    ELSE utxos_yield(st, Head(keys),
                     fs_tx_hash_on(unpack_le(Suffix(Head(keys), 4)), fs),
                     Tail(keys), store, fs)

\* get_utxos(hash168, limit): the UTXOs it yields, in order, and the
\* exception that ends it.
get_utxos(hash168, limit, store, fs) ==
    utxos_loop(Started(resolve_limit(limit)),
               iterator(store, PREFIX_utxo \o hash168), store, fs)

RECURSIVE SumValues(_)
SumValues(utxos) ==
    IF utxos = <<>> THEN 0 ELSE Head(utxos).value + SumValues(Tail(utxos))

\* get_balance(hash168)
get_balance(hash168, store, fs) ==
    [err |-> get_utxos(hash168, NoLimit, store, fs).err,
     val |-> SumValues(get_utxos(hash168, NoLimit, store, fs).out)]

\* What db_hash168 returns: (None, None), a pair, or an exception.
NotFound(e) ==
    [err |-> e, found |-> FALSE, hash168 |-> <<>>, tx_num_packed |-> <<>>]

\* A slip: the compressed hashes are compared, not the hashes.
hash_matches_compressed(hash, tx_hash) ==
    /\ ~hash.none
    /\ SubSeq(hash.bytes, 1, COMPRESSED_LEN)
           = SubSeq(tx_hash, 1, COMPRESSED_LEN)

\* db_hash168: "if hash == tx_hash"
hash_matches(hash, tx_hash) == ~hash.none /\ hash.bytes = tx_hash

RECURSIVE db_hash168_loop(_, _, _, _)
\* db_hash168: the comparison for db_key, r being what fs_tx_hash did, and
\* on with the rest of the keys.
db_hash168_try(db_key, r, rest, tx_hash, store, fs) ==
    IF r.err # "none" THEN NotFound(r.err)
    ELSE IF hash_matches(r.hash, tx_hash)
    THEN [err |-> "none", found |-> TRUE, hash168 |-> store[db_key],
          tx_num_packed |-> Suffix(db_key, 4)]
    ELSE db_hash168_loop(rest, tx_hash, store, fs)

\* db_hash168: the loop over the keys under the prefix.
db_hash168_loop(keys, tx_hash, store, fs) ==
    IF keys = <<>> THEN NotFound("none")
    ELSE IF Len(store[Head(keys)]) # ADDR_LEN
    THEN NotFound("AssertionError")
    ELSE db_hash168_try(Head(keys),
                        fs_tx_hash_on(unpack_le(Suffix(Head(keys), 4)), fs),
                        Tail(keys), tx_hash, store, fs)

\* db_hash168(tx_hash, idx_packed)
db_hash168(tx_hash, idx_packed, store, fs) ==
    db_hash168_loop(iterator(store,
                             PREFIX_hash168
                                 \o SubSeq(tx_hash, 1, COMPRESSED_LEN)
                                 \o idx_packed),
                    tx_hash, store, fs)

\* What db_utxo_lookup returns: a pair, or an exception.
LookupFailed(e) == [err |-> e, hash168 |-> <<>>, value |-> 0]

\* A slip: a value record that is not there is reported as a UTXO not
\* found.
db_utxo_value_unfound(o, key, store) ==
    IF key \notin DOMAIN store \/ store[key] = <<>>
    THEN LookupFailed("MissingUTXOError")
    ELSE [err |-> "none", hash168 |-> o.hash168,
          value |-> unpack_le(store[key])]

\* db_utxo_lookup from "db_value = self.db.get(key)" on.
db_utxo_value(o, key, store) ==
    IF key \notin DOMAIN store \/ store[key] = <<>>
    THEN LookupFailed("DBError")
    ELSE [err |-> "none", hash168 |-> o.hash168,
          value |-> unpack_le(store[key])]

\* db_utxo_lookup after db_hash168 returned o.
db_utxo_owner(o, idx_packed, store) ==
    IF o.err # "none" THEN LookupFailed(o.err)
    ELSE IF ~o.found \/ o.hash168 = <<>>
    THEN LookupFailed("MissingUTXOError")
    ELSE db_utxo_value(o,
                       PREFIX_utxo \o o.hash168 \o idx_packed
                           \o o.tx_num_packed,
                       store)

\* db_utxo_lookup(tx_hash, tx_idx)
db_utxo_lookup(tx_hash, tx_idx, store, fs) ==
    db_utxo_owner(db_hash168(tx_hash, pack_le(tx_idx, 2), store, fs),
                  pack_le(tx_idx, 2), store)

(* ------------------------- opening the database ----------------------- *)
NoDb == [open |-> FALSE, is_new |-> FALSE, max_open_files |-> 0]

\* open_db(db_name, db_engine, max_open_files): the handle; the database
\* is new when it did not exist, and exists from then on.
open_db(exists, max_open_files) ==
    [open |-> TRUE, is_new |-> ~exists, max_open_files |-> max_open_files]

\* One call reopen_db makes on the store: db.close(), open_db(...) with its
\* max_open_files, or read_state().
StoreCall(call, max_open_files) ==
    [call |-> call, max_open_files |-> max_open_files]

\* reopen_db: "if self.db: self.db.close()", prev being self.db.
reopen_close(prev) ==
    IF prev.open THEN <<StoreCall("close", 0)>> ELSE <<>>

RECURSIVE reopen_db(_, _, _, _, _)
\* A slip: the store is left as opened when the flag it holds differs from
\* the argument.
reopen_tail_kept(handle, r, store, first_sync) ==
    [db |-> handle, self |-> r.self, err |-> r.err, opens |-> 1,
     calls |-> <<>>]

\* reopen_db(first_sync) after its read_state returned r: done, or once
\* more with the flag the database holds.
reopen_tail(handle, r, store, first_sync) ==
    IF r.err # "none" \/ r.self.first_sync = first_sync
    THEN [db |-> handle, self |-> r.self, err |-> r.err, opens |-> 1,
          calls |-> <<>>]
    ELSE [reopen_db(TRUE, r.self, store, r.self.first_sync, handle)
             EXCEPT !.opens = @ + 1]

\* reopen_db(first_sync) with the store handle it opened.
reopen_read(handle, s, store, first_sync) ==
    reopen_tail(handle, read_state(handle.is_new, s, store), store,
                first_sync)

\* The calls reopen_db makes on the store down to its read_state, followed
\* by those of the rest of it, whose outcome is o.
reopen_calls(prev, handle, o) ==
    [o EXCEPT !.calls = reopen_close(prev)
                            \o <<StoreCall("open_db", handle.max_open_files),
                                 StoreCall("read_state", 0)>>
                            \o @]

\* reopen_db(first_sync), prev being self.db at the call: the handle and
\* attributes it leaves, the exception it raises, the number of times it
\* opened the store and the calls it made on it, in order.
reopen_db(exists, s, store, first_sync, prev) ==
    reopen_calls(prev, open_db(exists, IF first_sync THEN 1024 ELSE 256),
                 reopen_read(open_db(exists,
                                     IF first_sync THEN 1024 ELSE 256),
                             s, store, first_sync))

\* The attributes the block processor sets up after DB.__init__.
BlankBP == [height |-> -1, fs_height |-> -1, headers |-> <<>>,
            tx_hashes |-> <<>>]
StartBP(s) == [height |-> s.db_height, fs_height |-> s.db_height,
               headers |-> <<>>, tx_hashes |-> <<>>]

\* A slip: the whole txcount file is taken and nothing asserted.
load_tx_counts_whole(o, loaded, n) ==
    [o EXCEPT !.tx_counts = o.txcount_file.data]

\* self.tx_counts.fromfile(self.txcount_file, n) and the assertions on
\* db_tx_count that follow.
load_tx_counts(o, loaded, n) ==
    IF Len(loaded) < n THEN [o EXCEPT !.tx_counts = loaded,
                                      !.err = "EOFError"]
    ELSE IF o.self.db_tx_count #
            (IF loaded # <<>> THEN loaded[Len(loaded)] ELSE 0)
    THEN [o EXCEPT !.tx_counts = loaded, !.err = "AssertionError"]
    ELSE [o EXCEPT !.tx_counts = loaded]

\* The opening of the files 'headers' and 'txcount', h and t.
open_files(o, h, t) ==
    IF h.err # "none" THEN [o EXCEPT !.err = h.err]
    ELSE IF t.err # "none"
    THEN [o EXCEPT !.headers_file = h.file, !.err = t.err]
    ELSE load_tx_counts([o EXCEPT !.headers_file = h.file,
                                  !.txcount_file = t.file],
                        SubSeq(t.file.data, 1,
                               Min(o.self.db_height + 1, Len(t.file.data))),
                        o.self.db_height + 1)

\* DB.__init__ after reopen_db(True) returned o.
init_files(o, hf, tf) ==
    IF o.err # "none" THEN o
    ELSE open_files(o, open_file(hf, o.self.db_height = -1),
                    open_file(tf, o.self.db_height = -1))

\* The result of reopen_db with the files as they are.
with_files(o, hf, tf) ==
    [db |-> o.db, self |-> o.self, err |-> o.err, headers_file |-> hf,
     txcount_file |-> tf, tx_counts |-> <<>>]

\* DB.__init__ down to the call of clean_db: the handle, attributes and
\* files it leaves and the exception it raises.
DB_init(exists, store, hf, tf) ==
    init_files(with_files(reopen_db(exists, Blank, store, TRUE, NoDb), hf,
                         tf),
               hf, tf)

NoRet == [op |-> "none"]

\* No recovery to speak of: none has run, or the store was written since.
NoPre == [active |-> FALSE, kv |-> EmptyStore, db_height |-> -1,
          flush_count |-> 0, utxo_flush_count |-> 0, plan |-> <<>>]

\* A slip: DB.__init__ returns without the call of clean_db.
DBInitEnd_unrecovered(o, c) ==
    /\ db_exists' = TRUE
    /\ db' = o.db
    /\ headers_file' = o.headers_file
    /\ txcount_file' = o.txcount_file
    /\ tx_counts' = o.tx_counts
    /\ err' = o.err
    /\ self' = o.self
    /\ IF o.err # "none"
       THEN /\ pc' = "failed"
            /\ UNCHANGED <<bp, todo, pre>>
       ELSE /\ pc' = "ready"
            /\ bp' = StartBP(o.self)
            /\ todo' = <<>>
            /\ pre' = NoPre

\* The end of DB.__init__: o is what it did before clean_db, c what
\* clean_db did before its write batch.
DBInitEnd(o, c) ==
    /\ db_exists' = TRUE
    /\ db' = o.db
    /\ headers_file' = o.headers_file
    /\ txcount_file' = o.txcount_file
    /\ tx_counts' = o.tx_counts
    /\ err' = o.err
    /\ IF o.err # "none"
       THEN /\ pc' = "failed"
            /\ self' = o.self
            /\ UNCHANGED <<bp, todo, pre>>
       ELSE /\ pc' = "batch"
            /\ self' = c.self
            /\ bp' = StartBP(o.self)
            /\ todo' = c.history_keys \o c.undo_keys
            /\ pre' = [active |-> TRUE, kv |-> kv,
                       db_height |-> o.self.db_height,
                       flush_count |-> o.self.flush_count,
                       utxo_flush_count |-> o.self.utxo_flush_count,
                       plan |-> c.history_keys \o c.undo_keys]

DBInitFrom(o) == DBInitEnd(o, clean_db(o.self, kv))

\* DB(env): construction, down to the opening of clean_db's write batch.
DBInit ==
    /\ pc = "closed"
    /\ DBInitFrom(DB_init(db_exists, kv, headers_file, txcount_file))
    /\ batch' = <<>>
    /\ ret' = [op |-> "init"]
    /\ UNCHANGED <<kv, hash_files, written, appended>>

\* One statement of clean_db's with block: a batch_delete, or after the
\* last of them write_state(batch).
BatchStep ==
    /\ pc = "batch"
    /\ IF todo # <<>>
       THEN LET d == batch_delete(kv, batch, Head(todo))
            IN  /\ kv' = d.kv
                /\ batch' = d.batch
                /\ todo' = Tail(todo)
                /\ UNCHANGED <<pc, written>>
       ELSE /\ batch' = Append(batch, write_state(self))
            /\ written' = self
            /\ pc' = "commit"
            /\ UNCHANGED <<kv, todo>>
    /\ UNCHANGED <<db_exists, headers_file, txcount_file, hash_files, db,
                   self, tx_counts, bp, err, pre, appended, ret>>

\* The end of clean_db's with block: the batch is committed.
BatchCommit ==
    /\ pc = "commit"
    /\ kv' = ApplyBatch(kv, batch)
    /\ batch' = <<>>
    /\ pc' = "ready"
    /\ UNCHANGED <<db_exists, headers_file, txcount_file, hash_files, db,
                   self, tx_counts, bp, err, todo, pre, written, appended,
                   ret>>

\* The process stops: what is in memory is lost, an open batch with it.
Crash ==
    /\ pc \in {"batch", "commit", "ready"}
    /\ pc' = "closed"
    /\ db' = NoDb
    /\ self' = Blank
    /\ tx_counts' = <<>>
    /\ bp' = BlankBP
    /\ err' = "none"
    /\ batch' = <<>>
    /\ todo' = <<>>
    /\ written' = Blank
    /\ ret' = [op |-> "crash", at |-> pc, batched |-> Len(batch)]
    /\ UNCHANGED <<db_exists, kv, headers_file, txcount_file, hash_files,
                   pre, appended>>

ReopenDbEnd(o, first_sync) ==
    /\ db' = o.db
    /\ self' = o.self
    /\ err' = o.err
    /\ pc' = IF o.err = "none" THEN "ready" ELSE "failed"
    /\ ret' = [op |-> "reopen_db", first_sync |-> first_sync,
               opens |-> o.opens, calls |-> o.calls]

\* reopen_db(first_sync) on the open database.
ReopenDb(first_sync) ==
    /\ pc = "ready"
    /\ ReopenDbEnd(reopen_db(db_exists, self, kv, first_sync, db),
                   first_sync)
    /\ UNCHANGED <<db_exists, kv, headers_file, txcount_file, hash_files,
                   tx_counts, bp, batch, todo, pre, written, appended>>

(* ------------------------- the block processor ------------------------ *)
\* Transactions of the block at height h: one in the genesis block, two
\* in every other.
TxsIn(h) == IF h = 0 THEN 1 ELSE 2

\* The block processor takes one more block, of fork v: its header,
\* hashes and cumulative count are appended to self.headers,
\* self.tx_hashes and self.tx_counts.  The
\* blocks it holds between two writes of the flat files are of one fork.
AdvanceBlock(v) ==
    /\ pc = "ready"
    /\ bp.height < MaxHeight
    /\ bp.headers # <<>> =>
           bp.headers[1] = Header(bp.height - Len(bp.headers) + 1, v)
    /\ LET cur == IF tx_counts # <<>> THEN tx_counts[Len(tx_counts)] ELSE 0
       IN  /\ tx_counts' = Append(tx_counts, cur + TxsIn(bp.height + 1))
           /\ bp' = [bp EXCEPT
                       !.height = bp.height + 1,
                       !.headers = Append(bp.headers,
                                          Header(bp.height + 1, v)),
                       !.tx_hashes = Append(bp.tx_hashes,
                                            [i \in 1..TxsIn(bp.height + 1) |->
                                                TxHash(cur + i - 1, v)])]
    /\ ret' = NoRet
    /\ UNCHANGED <<db_exists, kv, headers_file, txcount_file, hash_files, db,
                   self, pc, err, batch, todo, pre, written, appended>>

\* fs_update(fs_height, self.headers, self.tx_hashes), called by the block
\* processor, which then takes the flat files as written up to its height.
FsUpdate(fs_height) ==
    /\ pc = "ready"
    /\ LET r == fs_update(fs_height, bp.headers, bp.tx_hashes, tx_counts, bp,
                          headers_file, txcount_file, hash_files)
       IN  /\ headers_file' = r.headers_file
           /\ txcount_file' = r.txcount_file
           /\ hash_files' = r.hash_files
           /\ err' = r.err
           /\ IF r.err = "none"
              THEN /\ pc' = "ready"
                   /\ bp' = [bp EXCEPT !.fs_height = bp.height,
                                       !.headers = <<>>,
                                       !.tx_hashes = <<>>]
                   /\ appended' =
                          [h \in 1..(IF Len(appended) >
                                        fs_height + 1 + Len(bp.headers)
                                     THEN Len(appended)
                                     ELSE fs_height + 1 + Len(bp.headers)) |->
                              IF h > fs_height + 1
                                 /\ h <= fs_height + 1 + Len(bp.headers)
                              THEN bp.headers[h - fs_height - 1]
                              ELSE appended[h]]
              ELSE /\ pc' = "failed"
                   /\ UNCHANGED <<bp, appended>>
           /\ ret' = [op |-> "fs_update", fs_height |-> fs_height,
                      blocks |-> Len(bp.headers), err |-> r.err]
    /\ UNCHANGED <<db_exists, kv, db, self, tx_counts, batch, todo, pre,
                   written>>

\* The block processor flushes: with the flat files written it takes its
\* height as the database's and commits a batch holding write_state.
FlushState ==
    /\ pc = "ready"
    /\ bp.headers = <<>>
    /\ bp.height > self.db_height
    /\ LET s == [self EXCEPT
                   !.db_height = bp.height,
                   !.db_tx_count = tx_counts[Len(tx_counts)],
                   !.db_tip = TipOf(bp.height),
                   !.flush_count = self.flush_count + 1,
                   !.utxo_flush_count = self.flush_count + 1,
                   !.wall_time = WallOf(bp.height)]
       IN  /\ self' = s
           /\ written' = s
           /\ kv' = ApplyBatch(kv, <<write_state(s)>>)
    /\ pre' = NoPre
    /\ ret' = NoRet
    /\ UNCHANGED <<db_exists, headers_file, txcount_file, hash_files, db,
                   tx_counts, bp, pc, err, batch, todo, appended>>

\* read_headers(start, count) on the open database, the block processor
\* being idle.
ReadHeaders(start, count) ==
    /\ pc = "ready"
    /\ bp.headers = <<>>
    /\ bp.height = self.db_height
    /\ LET r == read_headers(start, count, self.db_height, headers_file.data)
       IN  ret' = [op |-> "read_headers", start |-> start, count |-> count,
                   err |-> r.err, val |-> r.val]
    /\ UNCHANGED <<db_exists, kv, headers_file, txcount_file, hash_files, db,
                   self, tx_counts, bp, pc, err, batch, todo, pre, written,
                   appended>>

\* fs_tx_hash(tx_num) on the open database.
FsTxHash(tx_num) ==
    /\ pc = "ready"
    /\ LET r == fs_tx_hash(tx_num, tx_counts, self.db_height, hash_files)
       IN  ret' = [op |-> "fs_tx_hash", tx_num |-> tx_num, err |-> r.err,
                   hash |-> r.hash, height |-> r.height, reads |-> r.reads]
    /\ UNCHANGED <<db_exists, kv, headers_file, txcount_file, hash_files, db,
                   self, tx_counts, bp, pc, err, batch, todo, pre, written,
                   appended>>

(* ------------------------------- queries ------------------------------ *)
\* A query is served by the open database and writes nothing.
Serving ==
    /\ pc = "ready"
    /\ UNCHANGED <<db_exists, kv, headers_file, txcount_file, hash_files, db,
                   self, tx_counts, bp, pc, err, batch, todo, pre, written,
                   appended>>

\* What fs_tx_hash reads of the open database.
Fs == FsOf(tx_counts, self.db_height, hash_files)

\* list(get_history(hash168, limit))
GetHistory(hash168, limit) ==
    /\ Serving
    /\ ret' = [op |-> "get_history", hash168 |-> hash168, limit |-> limit,
               err |-> get_history(hash168, limit, kv, Fs).err,
               out |-> get_history(hash168, limit, kv, Fs).out]

\* list(get_utxos(hash168, limit))
GetUtxos(hash168, limit) ==
    /\ Serving
    /\ ret' = [op |-> "get_utxos", hash168 |-> hash168, limit |-> limit,
               err |-> get_utxos(hash168, limit, kv, Fs).err,
               out |-> get_utxos(hash168, limit, kv, Fs).out]

\* get_balance(hash168)
GetBalance(hash168) ==
    /\ Serving
    /\ ret' = [op |-> "get_balance", hash168 |-> hash168,
               err |-> get_balance(hash168, kv, Fs).err,
               val |-> get_balance(hash168, kv, Fs).val]

\* db_hash168(tx_hash, pack('<H', idx))
DbHash168(tx_hash, idx) ==
    /\ Serving
    /\ ret' = [op |-> "db_hash168", tx_hash |-> tx_hash, idx |-> idx,
               res |-> db_hash168(tx_hash, pack_le(idx, 2), kv, Fs)]

\* db_utxo_lookup(tx_hash, idx)
DbUtxoLookup(tx_hash, idx) ==
    /\ Serving
    /\ ret' = [op |-> "db_utxo_lookup", tx_hash |-> tx_hash, idx |-> idx,
               res |-> db_utxo_lookup(tx_hash, idx, kv, Fs)]

(* ---------------------------- initial states -------------------------- *)
FlushVals == 0..MaxFlush \cup {256}
UndoHeights == 0..MaxHeight \cup {256}

\* The state dict as a database of this program holds it.
StateItems(h, tc, fc, ufc, fs, ver, gen) ==
    << <<"genesis", gen>>, <<"height", h>>, <<"tx_count", tc>>,
       <<"tip", TipOf(h)>>, <<"flush_count", fc>>,
       <<"utxo_flush_count", ufc>>, <<"wall_time", WallOf(h)>>,
       <<"first_sync", fs>>, <<"db_version", ver>> >>

\* Cumulative transaction count of a stored chain at height h.
CountAt(h) == IF h < 0 THEN 0 ELSE 2 * h + 1

\* A store holding the keys K and, unless it is absent, the state value.
MkStore(K, absent, value) ==
    [k \in K \cup (IF absent THEN {} ELSE {STATE_KEY}) |->
        IF k = STATE_KEY THEN value
        ELSE IF HasPrefix(k, PREFIX_H) THEN <<0>>
        ELSE <<7>>]

\* The process is not running; nothing is in memory.
InitMemory ==
    /\ db = NoDb
    /\ self = Blank
    /\ tx_counts = <<>>
    /\ bp = BlankBP
    /\ pc = "closed"
    /\ err = "none"
    /\ batch = <<>>
    /\ todo = <<>>
    /\ written = Blank
    /\ ret = NoRet
    /\ pre = NoPre

\* The flat files of a stored chain of height h.
InitFiles(h) ==
    /\ appended = [i \in 1..(h + 1) |-> Header(i - 1, 0)]
    /\ headers_file = [exists |-> TRUE, data |-> Join(appended)]
    /\ txcount_file = [exists |-> TRUE,
                       data |-> [i \in 1..(h + 1) |-> CountAt(i - 1)]]
    /\ hash_files = WriteHashes(EmptyStore, 0,
                                Join([n \in 1..CountAt(h) |->
                                         TxHash(n - 1, 0)]))

\* No database yet.
InitNew ==
    /\ db_exists = FALSE
    /\ kv = EmptyStore
    /\ headers_file = NoFile
    /\ txcount_file = NoFile
    /\ hash_files = EmptyStore
    /\ appended = <<>>
    /\ InitMemory

\* A database a run of the server left: any height and flush counters,
\* history keys of flushes up to flush_count, undo keys, as a clean or an
\* unclean shutdown leaves them.
InitStored ==
    \E h \in -1..MaxHeight, fc \in FlushVals, fs \in BOOLEAN :
      \E ufc \in {u \in FlushVals : u <= fc} :
        \E K \in SUBSET ({history_key(a, i) :
                             a \in Addrs, i \in {j \in FlushVals \ {0} : j <= fc}}
                         \cup {undo_key(u) : u \in UndoHeights}) :
            /\ Cardinality(K) <= MaxKeys
            /\ db_exists = TRUE
            /\ kv = MkStore(K, FALSE,
                            repr(StateItems(h, CountAt(h), fc, ufc, fs, 3,
                                            GENESIS_HASH)))
            /\ InitFiles(h)
            /\ InitMemory

\* The state dict of a sound database of height 0.
SoundItems == StateItems(0, 1, 1, 1, TRUE, 3, GENESIS_HASH)

\* The state values of a damaged database: no value, an empty one, one
\* that is no Python literal, a literal that is no dict, a dict lacking a
\* key, a dict of another version or another coin.
DamagedValues ==
    {[kind |-> k, items |-> <<>>] : k \in {"empty", "malformed", "list"}}
    \cup {repr([j \in 1..(Len(SoundItems) - 1) |->
                   IF j < i THEN SoundItems[j] ELSE SoundItems[j + 1]]) :
             i \in 1..Len(SoundItems)}
    \cup {repr(StateItems(0, 1, 1, 1, TRUE, 2, GENESIS_HASH)),
          repr(StateItems(0, 1, 1, 1, TRUE, 3, OTHER_GENESIS))}
    \cup {repr(StateItems(0, 1, fc, ufc, TRUE, 3, GENESIS_HASH)) :
             fc \in 0..1, ufc \in 1..2}

\* A database whose state record is damaged.
InitDamaged ==
    /\ db_exists = TRUE
    /\ \/ kv = MkStore({}, TRUE, <<>>)
       \/ \E value \in DamagedValues : kv = MkStore({}, FALSE, value)
    /\ InitFiles(0)
    /\ InitMemory

Init == InitNew \/ InitStored \/ InitDamaged

Next ==
    \/ DBInit
    \/ BatchStep
    \/ BatchCommit
    \/ Crash
    \/ \E first_sync \in BOOLEAN : ReopenDb(first_sync)

\* Opening and recovering a database that a run of the server left.
Spec == Init /\ [][Next]_vars

NextFS ==
    \/ DBInit
    \/ BatchStep
    \/ BatchCommit
    \/ Crash
    \/ \E v \in 0..1 : AdvanceBlock(v)
    \/ \E fs_height \in -1..MaxHeight : FsUpdate(fs_height)
    \/ FlushState
    \/ \E start \in -1..(MaxHeight + 1), count \in -1..(MaxHeight + 2) :
           ReadHeaders(start, count)
    \/ \E tx_num \in 0..(CountAt(MaxHeight) + 1) : FsTxHash(tx_num)

\* A database built from nothing by the block processor.
SpecFS == InitNew /\ [][NextFS]_vars

(* ------------------------ a database to query ------------------------- *)
\* Height of the stored chain that is queried.
QHeight == MaxHeight - 1

\* Hash of transaction n of that chain: the first byte, the part an
\* owner-lookup key keeps, is shared by every other transaction.
QHash(n) == [i \in 1..HASH_LEN |-> IF i = 1 THEN 1 + (n % 2) ELSE n + 1]

\* A hash of no transaction of the chain that has the compressed hash of
\* some.
StrangerHash == [i \in 1..HASH_LEN |-> IF i = 1 THEN 1 ELSE 99]

\* The first tx number that is not on disk.
Unflushed == CountAt(QHeight)

\* The tx numbers a history key of address a and flush id i holds, in
\* stored order.
HistNums(a, i) ==
    IF a = <<1>> THEN (IF i = 1 THEN <<1, 0>> ELSE <<2>>)
    ELSE (IF i = 1 THEN <<0, 2>> ELSE <<Unflushed>>)

\* The history keys, and the outputs (tx number, index) with their owner
\* and value, a database may hold.
HistKeys == {history_key(a, i) : a \in Addrs, i \in {1, 256}}
Outputs == {[n |-> 0, idx |-> 0], [n |-> 2, idx |-> 0],
            [n |-> 2, idx |-> 1], [n |-> Unflushed, idx |-> 0]}
OwnerOf(n) == IF n = 0 THEN <<1>> ELSE <<2>>
ValueOf(n, idx) == 10 * (n + 1) + idx

RECURSIVE JoinItems(_)
\* array.array('I', nums).tobytes()
JoinItems(nums) ==
    IF nums = <<>> THEN <<>>
    ELSE pack_le(Head(nums), 4) \o JoinItems(Tail(nums))

\* The value the database holds under a key of each table.
QValue(k, state) ==
    IF k = STATE_KEY THEN state
    ELSE IF HasPrefix(k, PREFIX_H)
    THEN JoinItems(HistNums(SubSeq(k, 2, 1 + ADDR_LEN),
                            unpack_be(Suffix(k, 2))))
    ELSE IF HasPrefix(k, PREFIX_hash168)
    THEN OwnerOf(unpack_le(Suffix(k, 4)))
    ELSE IF HasPrefix(k, PREFIX_utxo)
    THEN pack_le(ValueOf(unpack_le(Suffix(k, 4)),
                         unpack_le(SubSeq(Suffix(k, 6), 1, 2))), 8)
    ELSE <<7>>

\* The flat files of the stored chain.
InitFilesQ ==
    /\ appended = [i \in 1..(QHeight + 1) |-> Header(i - 1, 0)]
    /\ headers_file = [exists |-> TRUE, data |-> Join(appended)]
    /\ txcount_file = [exists |-> TRUE,
                       data |-> [i \in 1..(QHeight + 1) |-> CountAt(i - 1)]]
    /\ hash_files = WriteHashes(EmptyStore, 0,
                                Join([n \in 1..CountAt(QHeight) |->
                                         QHash(n - 1)]))

\* A database a run of the server left, shut down cleanly or not: history
\* of some addresses, unspent outputs in both tables (V) or missing from
\* the value table (W), undo records.
InitQuery ==
    \E ufc \in {1, 256} :
      \E H \in SUBSET HistKeys, V \in SUBSET Outputs, W \in SUBSET Outputs,
         D \in SUBSET {0, QHeight} :
        /\ V \cap W = {}
        /\ Cardinality(H) + Cardinality(V) + Cardinality(W) + Cardinality(D)
               <= MaxKeys
        /\ db_exists = TRUE
        /\ kv = [k \in {STATE_KEY} \cup H
                     \cup {hash168_key(QHash(o.n), o.idx, o.n) :
                              o \in V \cup W}
                     \cup {utxo_key(OwnerOf(o.n), o.idx, o.n) : o \in V}
                     \cup {undo_key(u) : u \in D} |->
                    QValue(k, repr(StateItems(QHeight, CountAt(QHeight),
                                              256, ufc, FALSE, 3,
                                              GENESIS_HASH)))]
        /\ InitFilesQ
        /\ InitMemory

Limits == {NoLimit, Limit(0), Limit(1), Limit(2), Limit(4)}
QueryHashes == {QHash(0), QHash(2), QHash(Unflushed), StrangerHash}

NextQ ==
    \/ DBInit
    \/ BatchStep
    \/ BatchCommit
    \/ Crash
    \/ \E first_sync \in BOOLEAN : ReopenDb(first_sync)
    \/ \E a \in Addrs, limit \in Limits : GetHistory(a, limit)
    \/ \E a \in Addrs, limit \in Limits : GetUtxos(a, limit)
    \/ \E a \in Addrs : GetBalance(a)
    \/ \E tx_hash \in QueryHashes, idx \in 0..1 : DbHash168(tx_hash, idx)
    \/ \E tx_hash \in QueryHashes, idx \in 0..1 : DbUtxoLookup(tx_hash, idx)
    \/ \E tx_num \in 0..(Unflushed + 1) : FsTxHash(tx_num)
    \/ \E start \in 0..1, count \in 0..1 : ReadHeaders(start, count)

SpecQ == InitQuery /\ [][NextQ]_vars

(* ------------------------------- claims ------------------------------- *)
IsHistoryKey(k) == HasPrefix(k, PREFIX_H)
IsUndoKey(k) == HasPrefix(k, PREFIX_U)
FlushIdOf(k) == unpack_be(Suffix(k, 2))
HeightOf(k) == unpack_be(Suffix(k, 4))
Opened == pc \in {"batch", "commit", "ready"}
Recovered == pc = "ready" /\ pre.active

\* C1: after the recovery of a database opened with flush_count >
\* utxo_flush_count, utxo_flush_count equals flush_count and no history key
\* is left whose flush id is above the utxo_flush_count read at the open.
C1_ExcessHistoryDeleted ==
    (Recovered /\ pre.flush_count > pre.utxo_flush_count) =>
        /\ self.utxo_flush_count = self.flush_count
        /\ \A k \in DOMAIN kv :
               IsHistoryKey(k) => FlushIdOf(k) <= pre.utxo_flush_count

\* C2: recovery never deletes or alters a history entry whose flush id is
\* at most the utxo_flush_count read at the open, and after a clean
\* shutdown (flush_count = utxo_flush_count) none at all.
C2_CoveredHistoryKept ==
    pre.active =>
        \A k \in DOMAIN pre.kv :
            (/\ IsHistoryKey(k)
             /\ \/ FlushIdOf(k) <= pre.utxo_flush_count
                \/ pre.flush_count = pre.utxo_flush_count)
            => (k \in DOMAIN kv /\ kv[k] = pre.kv[k])

\* An unclean shutdown was recovered and a history entry of a flush the
\* UTXO flush covered is still there.
C2_Witness ==
    /\ Recovered
    /\ pre.flush_count > pre.utxo_flush_count
    /\ \E k \in DOMAIN pre.kv :
           /\ IsHistoryKey(k)
           /\ FlushIdOf(k) <= pre.utxo_flush_count
           /\ k \in DOMAIN kv

\* C3: after recovery no undo key with height <= db_height - reorg_limit
\* is left in the store.
C3_NoStaleUndo ==
    Recovered =>
        \A k \in DOMAIN kv :
            IsUndoKey(k) => HeightOf(k) > pre.db_height - REORG_LIMIT

\* Recovery found two undo keys at or below the cutoff.
C3_Witness ==
    /\ Recovered
    /\ Cardinality({k \in DOMAIN pre.kv :
                       /\ IsUndoKey(k)
                       /\ HeightOf(k) <= pre.db_height - REORG_LIMIT}) >= 2

\* C4, as claimed: recovery keeps every undo key whose height lies in the
\* closed interval [db_height - reorg_limit, db_height].
C4_ClosedIntervalKept ==
    pre.active =>
        \A k \in DOMAIN pre.kv :
            (/\ IsUndoKey(k)
             /\ HeightOf(k) >= pre.db_height - REORG_LIMIT
             /\ HeightOf(k) <= pre.db_height)
            => k \in DOMAIN kv

\* C4, amended: recovery keeps every undo key whose height lies in the
\* half-open interval (db_height - reorg_limit, db_height], and deletes
\* the one at db_height - reorg_limit.
C4_AboveCutoffKept ==
    pre.active =>
        \A k \in DOMAIN pre.kv :
            /\ (/\ IsUndoKey(k)
                /\ HeightOf(k) > pre.db_height - REORG_LIMIT
                /\ HeightOf(k) <= pre.db_height)
               => (k \in DOMAIN kv /\ kv[k] = pre.kv[k])
            /\ (/\ Recovered
                /\ IsUndoKey(k)
                /\ HeightOf(k) = pre.db_height - REORG_LIMIT)
               => k \notin DOMAIN kv

\* Recovery met an undo key at the cutoff and one right above it.
C4_Witness ==
    /\ Recovered
    /\ undo_key(pre.db_height - REORG_LIMIT) \in DOMAIN pre.kv
    /\ undo_key(pre.db_height - REORG_LIMIT + 1) \in DOMAIN kv
    /\ pre.db_height - REORG_LIMIT + 1 <= pre.db_height

\* The store as recovery leaves it: the planned keys gone, every other
\* entry as it was, the state record rewritten with utxo_flush_count
\* raised to flush_count.
FullyRecovered ==
    /\ DOMAIN kv = (DOMAIN pre.kv \ {pre.plan[i] : i \in DOMAIN pre.plan})
                       \cup {STATE_KEY}
    /\ \A k \in DOMAIN kv \ {STATE_KEY} : kv[k] = pre.kv[k]
    /\ kv[STATE_KEY].kind = "dict"
    /\ literal_eval(kv[STATE_KEY])["utxo_flush_count"] = pre.flush_count
    /\ literal_eval(kv[STATE_KEY])["flush_count"] = pre.flush_count
    /\ literal_eval(kv[STATE_KEY])["height"] = pre.db_height

\* C5: at every point of recovery, and after a crash at any of them, the
\* persisted store is either as the open found it or fully recovered,
\* never a mixture.
C5_RecoveryAtomic ==
    pre.active => (kv = pre.kv \/ FullyRecovered)

\* The process crashed with two deletions and the state record in the
\* batch, right before the commit, and the store is as the open found it.
C5_Witness ==
    /\ pc = "closed"
    /\ ret.op = "crash"
    /\ ret.at = "commit"
    /\ ret.batched >= 3
    /\ pre.active
    /\ kv = pre.kv
    /\ ~FullyRecovered

\* The flush counters of the stored state record are in order.
StoredOrdered ==
    (/\ STATE_KEY \in DOMAIN kv
     /\ kv[STATE_KEY].kind = "dict"
     /\ {"flush_count", "utxo_flush_count"}
            \subseteq DOMAIN literal_eval(kv[STATE_KEY]))
    => literal_eval(kv[STATE_KEY])["utxo_flush_count"]
           <= literal_eval(kv[STATE_KEY])["flush_count"]

\* C6: in an opened database utxo_flush_count <= flush_count, in memory and
\* in the store; a stored record with utxo_flush_count > flush_count makes
\* the open fail with DBError.
C6_FlushCountersOrdered ==
    /\ Opened => (self.utxo_flush_count <= self.flush_count /\ StoredOrdered)
    /\ (pc # "closed" /\ ~StoredOrdered) => (pc = "failed" /\ err = "DBError")

\* An unclean shutdown was recovered and the state read again.
C6_Witness ==
    /\ pc = "ready"
    /\ ret.op = "reopen_db"
    /\ pre.flush_count > pre.utxo_flush_count
    /\ self.utxo_flush_count = pre.flush_count

\* The stored state record is one of the damaged ones of C7: no value or
\* no dict, a key missing, a version not recognized, another genesis hash.
DamagedState ==
    \/ STATE_KEY \notin DOMAIN kv
    \/ kv[STATE_KEY].kind # "dict"
    \/ /\ kv[STATE_KEY].kind = "dict"
       /\ \/ {"genesis", "height", "tx_count", "tip", "flush_count",
              "utxo_flush_count", "wall_time", "first_sync", "db_version"}
                 \ DOMAIN literal_eval(kv[STATE_KEY]) # {}
          \/ literal_eval(kv[STATE_KEY])["db_version"] \notin DB_VERSIONS
          \/ literal_eval(kv[STATE_KEY])["genesis"] # GENESIS_HASH

\* C7: on a database that is not new, read_state fails with DBError and
\* nothing else when the state record is damaged.
C7_DamagedStateIsDBError ==
    (pc = "failed" /\ ret.op = "init" /\ ~db.is_new /\ DamagedState)
        => err = "DBError"

\* C8: the state written by write_state and committed is read back by
\* read_state on the database, not new, with every field as it was
\* written, the stored genesis hash being the configured one.
C8_StateRoundTrip ==
    ret.op = "reopen_db" =>
        /\ pc = "ready"
        /\ err = "none"
        /\ ~db.is_new
        /\ self = written
        /\ literal_eval(kv[STATE_KEY])["genesis"] = GENESIS_HASH

\* A state that recovery changed before writing it (utxo_flush_count
\* raised), of a chain of some height, was read back.
C8_Witness ==
    /\ ret.op = "reopen_db"
    /\ pc = "ready"
    /\ self.db_height >= 1
    /\ ~self.first_sync
    /\ pre.flush_count > pre.utxo_flush_count
    /\ self = written

\* C9: whatever was appended and flushed, read_headers(h, 1) returns for
\* every h in [0, db_height] the header appended for h.
C9_HeadersReadBack ==
    pc = "ready" =>
        \A h \in 0..self.db_height :
            read_headers(h, 1, self.db_height, headers_file.data)
                = [err |-> "none", val |-> appended[h + 1]]

\* The header at the tip, of the second fork, was read.
C9_Witness ==
    /\ pc = "ready"
    /\ ret.op = "read_headers"
    /\ ret.count = 1
    /\ ret.start = self.db_height
    /\ self.db_height >= 1
    /\ ret.err = "none"
    /\ ret.val = Header(self.db_height, 1)

\* C10: read_headers(start, count) fails with DBError when start < 0,
\* count < 0 or start + count > db_height + 1, and otherwise returns the
\* count headers from start on, count * HEADER_LEN bytes.
C10_ReadHeadersRange ==
    ret.op = "read_headers" =>
        IF ret.start < 0 \/ ret.count < 0
              \/ ret.start + ret.count > self.db_height + 1
        THEN ret.err = "DBError"
        ELSE /\ ret.err = "none"
             /\ Len(ret.val) = ret.count * HEADER_LEN
             /\ ret.val = Join(SubSeq(appended, ret.start + 1,
                                      ret.start + ret.count))

\* Two headers were read from a height above the first.
C10_Witness ==
    /\ ret.op = "read_headers"
    /\ ret.err = "none"
    /\ ret.start >= 1
    /\ ret.count >= 2
    /\ Len(ret.val) = ret.count * HEADER_LEN

\* The state dict the store holds, its height and its tx count; -1 and 0
\* where the store holds none.
StoredState == literal_eval(kv[STATE_KEY])
HasStoredState == STATE_KEY \in DOMAIN kv /\ kv[STATE_KEY].kind = "dict"
StoredHeight == IF HasStoredState THEN StoredState["height"] ELSE -1
StoredTxCount == IF HasStoredState THEN StoredState["tx_count"] ELSE 0

\* The bytes of the shard files hashes0000, hashes0001, ... in a row.
AllHashes(files) ==
    Join([n \in 1..Cardinality(DOMAIN files) |-> files[n - 1]])

\* The flat files have no gap: whole records only, none of them the zeros
\* a seek past the end leaves, the shards numbered from 0 without a break
\* and full but for the last.
NoHoles ==
    /\ Len(headers_file.data) % HEADER_LEN = 0
    /\ \A i \in 1..Len(headers_file.data) :
           i % HEADER_LEN = 1 => headers_file.data[i] # 0
    /\ \A i \in 1..Len(txcount_file.data) : txcount_file.data[i] # 0
    /\ DOMAIN hash_files = 0..(Cardinality(DOMAIN hash_files) - 1)
    /\ \A n \in DOMAIN hash_files :
           /\ Len(hash_files[n]) % HASH_LEN = 0
           /\ Len(hash_files[n]) > 0
           /\ n + 1 \in DOMAIN hash_files =>
                  Len(hash_files[n]) = tx_hash_file_size
           /\ \A i \in 1..Len(hash_files[n]) :
                  i % HASH_LEN = 1 => hash_files[n][i] # 0

\* A step leaves the records up to the persisted height and tx count as
\* they are.
FlushedKept ==
    /\ SubSeq(headers_file'.data, 1, (StoredHeight + 1) * HEADER_LEN)
           = SubSeq(headers_file.data, 1, (StoredHeight + 1) * HEADER_LEN)
    /\ SubSeq(txcount_file'.data, 1, StoredHeight + 1)
           = SubSeq(txcount_file.data, 1, StoredHeight + 1)
    /\ SubSeq(AllHashes(hash_files'), 1, StoredTxCount * HASH_LEN)
           = SubSeq(AllHashes(hash_files), 1, StoredTxCount * HASH_LEN)

\* A call of fs_update either fails and writes nothing, or was given the
\* fs_height for which fs_height + len(headers) + 1 = len(tx_counts) and
\* wrote the headers from record fs_height + 1 on.
FsUpdateFromHeight ==
    ret'.op = "fs_update" =>
        IF ret'.err # "none"
        THEN UNCHANGED <<headers_file, txcount_file, hash_files>>
        ELSE /\ ret'.fs_height + ret'.blocks + 1 = Len(tx_counts')
             /\ Len(headers_file'.data) >=
                    (ret'.fs_height + ret'.blocks + 1) * HEADER_LEN
             /\ ret'.blocks > 0 =>
                    SubSeq(headers_file'.data,
                           (ret'.fs_height + 1) * HEADER_LEN + 1,
                           (ret'.fs_height + 2) * HEADER_LEN)
                        = appended'[ret'.fs_height + 2]

\* C11, as claimed: fs_update only ever appends; whatever it is passed, a
\* step leaves every byte the headers, txcount and hashes files held where
\* it was and as it was.
C11_AppendOnly ==
    [][/\ SubSeq(headers_file'.data, 1, Len(headers_file.data))
              = headers_file.data
       /\ SubSeq(txcount_file'.data, 1, Len(txcount_file.data))
              = txcount_file.data
       /\ SubSeq(AllHashes(hash_files'), 1, Len(AllHashes(hash_files)))
              = AllHashes(hash_files)]_vars

\* C11, amended: fs_update writes from the record after the fs_height it
\* is passed, which it accepts only if fs_height + len(headers) + 1 =
\* len(tx_counts), failing before any write otherwise; it leaves no gap in
\* the headers, txcount or hashes files and overwrites no record up to the
\* persisted height, while records above it, left by a run that ended
\* before its flush, are overwritten.
C11_WritesFromHeight ==
    []NoHoles /\ [][FlushedKept /\ FsUpdateFromHeight]_vars

\* A resumed fs_update wrote below the end of the headers file: records of
\* a run that ended before its flush lie beyond what it wrote.
C11_Witness ==
    /\ pc = "ready"
    /\ ret.op = "fs_update"
    /\ ret.err = "none"
    /\ ret.blocks >= 1
    /\ StoredHeight >= 0
    /\ Len(headers_file.data) > (bp.fs_height + 1) * HEADER_LEN

NonDecreasing(seq) == \A i \in 1..(Len(seq) - 1) : seq[i] <= seq[i + 1]

\* C12: after construction tx_counts holds db_height + 1 entries, the last
\* of them db_tx_count (none for an empty database); after every fs_update
\* that returns it holds one entry for each height up to the one written,
\* fs_height + len(headers); it is non-decreasing both times.
C12_TxCountsShape ==
    /\ (Opened /\ ret.op = "init") =>
           /\ Len(tx_counts) = self.db_height + 1
           /\ NonDecreasing(tx_counts)
           /\ self.db_tx_count =
                  (IF tx_counts # <<>> THEN tx_counts[Len(tx_counts)] ELSE 0)
    /\ (ret.op = "fs_update" /\ ret.err = "none") =>
           /\ Len(tx_counts) = ret.fs_height + ret.blocks + 1
           /\ Len(tx_counts) = bp.fs_height + 1
           /\ NonDecreasing(tx_counts)
           /\ Len(AllHashes(hash_files)) >=
                  (IF tx_counts # <<>> THEN tx_counts[Len(tx_counts)] ELSE 0)
                      * HASH_LEN

\* fs_update wrote two blocks above the persisted height: tx_counts is as
\* long as the files are high, longer than db_height + 1.
C12_Witness ==
    /\ ret.op = "fs_update"
    /\ ret.err = "none"
    /\ ret.blocks >= 2
    /\ Len(tx_counts) > self.db_height + 1
    /\ self.db_height >= 0

\* The fork of the block last appended for height h, and the cumulative
\* tx count below height h.
ForkAt(h) == appended[h + 1][HEADER_LEN]
CountBelow(h) == IF h = 0 THEN 0 ELSE tx_counts[h]

\* C13: for every tx number n below tx_count, fs_tx_hash(n) raises nothing
\* and returns the hash written for n, whatever shard holds it, with the
\* one height h for which TxCounts[h-1] <= n < TxCounts[h].
C13_TxHashResolves ==
    pc = "ready" =>
        \A n \in 0..(self.db_tx_count - 1) :
            LET r == fs_tx_hash(n, tx_counts, self.db_height, hash_files)
            IN  /\ r.err = "none"
                /\ r.height \in 0..self.db_height
                /\ CountBelow(r.height) <= n
                /\ n < tx_counts[r.height + 1]
                /\ \A h \in 0..(Len(tx_counts) - 1) :
                       (CountBelow(h) <= n /\ n < tx_counts[h + 1])
                           => h = r.height
                /\ r.hash = SomeHash(TxHash(n, ForkAt(r.height)))
                /\ r.reads = {(n * HASH_LEN) \div tx_hash_file_size}
                /\ (ret.op = "fs_tx_hash" /\ ret.tx_num = n) =>
                       (ret.hash = r.hash /\ ret.height = r.height
                            /\ ret.err = "none")

\* A hash of the second fork was read from the second shard, for a
\* transaction that is not the first of its block.
C13_Witness ==
    /\ pc = "ready"
    /\ ret.op = "fs_tx_hash"
    /\ ret.tx_num < self.db_tx_count
    /\ ret.reads = {1}
    /\ ret.height >= 1
    /\ ret.tx_num > CountBelow(ret.height)
    /\ ret.hash = SomeHash(TxHash(ret.tx_num, 1))

RECURSIVE Ascending(_)
\* The numbers of a set, smallest first.
Ascending(S) ==
    IF S = {} THEN <<>>
    ELSE LET m == CHOOSE x \in S : \A y \in S : x <= y
         IN  <<m>> \o Ascending(S \ {m})

RECURSIVE NumsOf(_, _)
\* The tx numbers of address a in the flushes ids, flush after flush.
NumsOf(a, ids) ==
    IF ids = <<>> THEN <<>>
    ELSE HistNums(a, Head(ids)) \o NumsOf(a, Tail(ids))

\* The tx numbers the store holds for address a, earliest flush first.
HistoryOf(a) ==
    NumsOf(a, Ascending({i \in {1, 256} : history_key(a, i) \in DOMAIN kv}))

\* What tx number n of the queried chain resolves to: its hash, None when
\* it is not on disk, and the number of heights whose cumulative count it
\* has reached.
ResolvedQ(n) ==
    [hash |-> IF n < CountAt(QHeight) THEN SomeHash(QHash(n)) ELSE NoneHash,
     height |-> Cardinality({h \in 0..QHeight : CountAt(h) <= n})]

\* g is the first k of the entries E, resolved, and no exception.
YieldsFirst(g, E, k) ==
    /\ g.err = "none"
    /\ g.out = [i \in 1..k |-> ResolvedQ(E[i])]

\* C14: get_history(address, limit) yields the address's entries, and no
\* other, earliest flush first and in stored order within a flush: the
\* first min(limit, N) of the N there are, all for no limit, none for 0.
C14_HistoryInFlushOrder ==
    pc = "ready" =>
        \A a \in Addrs, limit \in Limits :
            /\ YieldsFirst(get_history(a, limit, kv, Fs), HistoryOf(a),
                           IF limit.none THEN Len(HistoryOf(a))
                           ELSE Min(limit.n, Len(HistoryOf(a))))
            /\ (ret.op = "get_history" /\ ret.hash168 = a
                    /\ ret.limit = limit) =>
                   ret.out = get_history(a, limit, kv, Fs).out

\* The history of an address with two flushes was asked for with a limit
\* below the three entries it has: the two of the earlier flush came, in
\* stored order.
C14_Witness ==
    /\ pc = "ready"
    /\ ret.op = "get_history"
    /\ ret.hash168 = <<1>>
    /\ ret.limit = Limit(2)
    /\ Len(HistoryOf(<<1>>)) = 3
    /\ ret.out = <<ResolvedQ(1), ResolvedQ(0)>>

\* The owner-lookup records the store holds under the compressed hash of
\* tx_hash and the output index idx.
Candidates(tx_hash, idx) ==
    {k \in DOMAIN kv :
        /\ Len(k) = 1 + COMPRESSED_LEN + 2 + 4
        /\ HasPrefix(k, PREFIX_hash168 \o SubSeq(tx_hash, 1, COMPRESSED_LEN)
                            \o pack_le(idx, 2))}

\* The candidates whose tx number the flat files resolve to tx_hash.
FullMatches(tx_hash, idx) ==
    {k \in Candidates(tx_hash, idx) :
        fs_tx_hash_on(unpack_le(Suffix(k, 4)), Fs).hash = SomeHash(tx_hash)}

\* C15: db_hash168(tx_hash, idx) returns the address and the tx number of a
\* record under the compressed hash and index whose tx number resolves to
\* the whole tx_hash, never those of a record that only shares the
\* compressed hash, and (None, None) exactly when there is no such record.
C15_OwnerOfFullHash ==
    pc = "ready" =>
        \A tx_hash \in QueryHashes, idx \in 0..1 :
            LET r == db_hash168(tx_hash, pack_le(idx, 2), kv, Fs)
            IN  /\ r.err = "none"
                /\ r.found <=> FullMatches(tx_hash, idx) # {}
                /\ r.found =>
                       \E k \in FullMatches(tx_hash, idx) :
                           /\ r.hash168 = kv[k]
                           /\ r.tx_num_packed = Suffix(k, 4)
                /\ ~r.found => r = NotFound("none")
                /\ (ret.op = "db_hash168" /\ ret.tx_hash = tx_hash
                        /\ ret.idx = idx) => ret.res = r

\* Two transactions with one compressed hash each own an output 0; the
\* owner of the later one was asked for, and it is its address and number
\* that came, the record of the earlier one being met first.
C15_Witness ==
    /\ pc = "ready"
    /\ ret.op = "db_hash168"
    /\ ret.tx_hash = QHash(2)
    /\ ret.idx = 0
    /\ Cardinality(Candidates(QHash(2), 0)) = 2
    /\ Cardinality(FullMatches(QHash(2), 0)) = 1
    /\ ret.res.found
    /\ ret.res.hash168 = OwnerOf(2)
    /\ ret.res.hash168 # OwnerOf(0)
    /\ ret.res.tx_num_packed = pack_le(2, 4)

\* The key of the value record that goes with the owner-lookup record k.
ValueKeyOf(k) ==
    PREFIX_utxo \o kv[k] \o SubSeq(k, 2 + COMPRESSED_LEN, 3 + COMPRESSED_LEN)
        \o Suffix(k, 4)

\* What db_utxo_lookup(tx_hash, idx) does on the store as it is: no owner
\* record of the whole hash, MissingUTXOError; an owner record without its
\* value record, DBError; both, the address and the value.
LookupOutcome(tx_hash, idx, r) ==
    /\ FullMatches(tx_hash, idx) = {} => r = LookupFailed("MissingUTXOError")
    /\ \A k \in FullMatches(tx_hash, idx) :
           /\ ValueKeyOf(k) \notin DOMAIN kv => r = LookupFailed("DBError")
           /\ ValueKeyOf(k) \in DOMAIN kv =>
                  r = [err |-> "none", hash168 |-> kv[k],
                       value |-> unpack_le(kv[ValueKeyOf(k)])]
    /\ r.err = "none" =>
           \E k \in FullMatches(tx_hash, idx) : ValueKeyOf(k) \in DOMAIN kv

C16_Outcomes ==
    pc = "ready" =>
        \A tx_hash \in QueryHashes, idx \in 0..1 :
            /\ LookupOutcome(tx_hash, idx,
                             db_utxo_lookup(tx_hash, idx, kv, Fs))
            /\ (ret.op = "db_utxo_lookup" /\ ret.tx_hash = tx_hash
                    /\ ret.idx = idx) =>
                   ret.res = db_utxo_lookup(tx_hash, idx, kv, Fs)

\* A step that is a db_utxo_lookup, whatever its outcome, leaves the store,
\* the files and the loaded state as they were.
C16_Frame ==
    (ret'.op = "db_utxo_lookup" /\ ret' # ret)
        => UNCHANGED <<db_exists, kv, headers_file, txcount_file, hash_files,
                       db, self, tx_counts>>

\* C16: db_utxo_lookup(tx_hash, idx) raises MissingUTXOError when the owner
\* lookup finds no record of tx_hash, DBError when it finds one and the
\* value record 'u' + address + idx + tx_num is not there, returns (address,
\* value) only when both are there, and changes nothing stored in any of
\* the three cases.
C16_LookupFailures == []C16_Outcomes /\ [][C16_Frame]_vars

\* An output is in the owner table only: looking it up was a DBError, and
\* looking up an output of a hash no transaction has would be a
\* MissingUTXOError.
C16_Witness ==
    /\ pc = "ready"
    /\ ret.op = "db_utxo_lookup"
    /\ FullMatches(ret.tx_hash, ret.idx) # {}
    /\ \A k \in FullMatches(ret.tx_hash, ret.idx) :
           ValueKeyOf(k) \notin DOMAIN kv
    /\ ret.res = LookupFailed("DBError")
    /\ db_utxo_lookup(StrangerHash, ret.idx, kv, Fs)
           = LookupFailed("MissingUTXOError")

\* The flat files hold, up to height h, what was last written for each
\* height: the headers, the cumulative tx counts txc, and the hash of every
\* transaction below txc's last.
FilesHold(h, txc) ==
    /\ Len(txc) = h + 1
    /\ Len(appended) >= h + 1
    /\ SubSeq(headers_file.data, 1, (h + 1) * HEADER_LEN)
           = Join(SubSeq(appended, 1, h + 1))
    /\ SubSeq(txcount_file.data, 1, h + 1) = txc
    /\ \A n \in 0..((IF txc # <<>> THEN txc[Len(txc)] ELSE 0) - 1) :
           FileRead(AllHashes(hash_files), n * HASH_LEN, HASH_LEN)
               = TxHash(n, ForkAt(bisect_right(txc, n)))

\* What an open of a database that holds a state record leaves, while
\* nothing else was done since: it succeeded, the state is the persisted
\* one, tx_counts holds db_height + 1 entries ending in the persisted tx
\* count, and the files hold the chain up to db_height.
OpenedOnPersisted ==
    (ret.op = "init" /\ HasStoredState) =>
        /\ Opened
        /\ err = "none"
        /\ self.db_height = StoredHeight
        /\ self.db_tx_count = StoredTxCount
        /\ Len(tx_counts) = self.db_height + 1
        /\ (IF tx_counts # <<>> THEN tx_counts[Len(tx_counts)] ELSE 0)
               = StoredTxCount
        /\ FilesHold(self.db_height, tx_counts)

\* What the open database serves: every header and every tx hash up to
\* the persisted height and tx count, as last written.
ServesPersisted ==
    (pc = "ready" /\ self.db_height = StoredHeight) =>
        /\ read_headers(0, StoredHeight + 1, self.db_height,
                        headers_file.data)
               = [err |-> "none",
                  val |-> Join(SubSeq(appended, 1, StoredHeight + 1))]
        /\ \A n \in 0..(StoredTxCount - 1) :
               LET r == fs_tx_hash(n, tx_counts, self.db_height, hash_files)
               IN  /\ r.err = "none"
                   /\ r.height <= StoredHeight
                   /\ r.hash = SomeHash(TxHash(n, ForkAt(r.height)))

\* After an fs_update that returned the files have no gap and hold the
\* chain up to the height written.
ResumedConsistent ==
    (ret.op = "fs_update" /\ ret.err = "none") =>
        /\ NoHoles
        /\ bp.fs_height = ret.fs_height + ret.blocks
        /\ FilesHold(bp.fs_height, tx_counts)

\* A step changes nothing that was written for a height up to the
\* persisted one, and an fs_update from the height the files were written
\* to, the persisted one after an open, returns.
PersistedStays ==
    /\ \A h \in 1..(StoredHeight + 1) :
           /\ h <= Len(appended)
           /\ h <= Len(appended')
           /\ appended'[h] = appended[h]
    /\ (ret'.op = "fs_update" /\ ret'.fs_height = bp.fs_height
            /\ ret' # ret)
           => ret'.err = "none"

\* C17: flat-file appends are resumable after a crash without rollback.
\* When the process ends after fs_update wrote headers, tx counts and tx
\* hashes and before the state record of the new height is committed, the
\* next open succeeds and loads db_height + 1 tx counts, the last of them
\* the persisted tx_count; every height and tx number up to the persisted
\* ones is served as it was written; and an fs_update resumed from the
\* persisted height returns and leaves the files without gap and holding
\* the chain up to the height it wrote.
C17_ResumableAfterCrash ==
    /\ [](OpenedOnPersisted /\ ServesPersisted /\ ResumedConsistent)
    /\ [][PersistedStays]_vars

\* A run wrote blocks above the persisted height and ended before its
\* flush; the next run opened the database and its fs_update, resumed from
\* the persisted height with a block of the other fork, has returned:
\* records of the run that ended lie beyond what it wrote.
C17_Witness ==
    /\ pc = "ready"
    /\ ret.op = "fs_update"
    /\ ret.err = "none"
    /\ ret.blocks >= 1
    /\ StoredHeight >= 0
    /\ ret.fs_height = StoredHeight
    /\ self.db_height = StoredHeight
    /\ Len(appended) > bp.fs_height + 1
    /\ Len(headers_file.data) = Len(appended) * HEADER_LEN
    /\ ForkAt(bp.fs_height) # ForkAt(bp.fs_height + 1)
    /\ FilesHold(bp.fs_height, tx_counts)

\* The operations that are queries.
QueryOps == {"get_history", "get_utxos", "get_balance", "db_hash168",
             "db_utxo_lookup", "read_headers", "fs_tx_hash"}

\* While clean_db runs the state record and the tx counts are loaded: the
\* attributes are those of the record the open found, tx_counts holds
\* db_height + 1 entries ending in db_tx_count.
RecoveryAfterLoad ==
    pc \in {"batch", "commit"} =>
        /\ ret.op = "init"
        /\ db.open
        /\ pre.active
        /\ self.db_height = pre.db_height
        /\ (STATE_KEY \in DOMAIN pre.kv) =>
               /\ self.db_height = literal_eval(pre.kv[STATE_KEY])["height"]
               /\ self.db_tx_count
                      = literal_eval(pre.kv[STATE_KEY])["tx_count"]
        /\ Len(tx_counts) = self.db_height + 1
        /\ self.db_tx_count
               = (IF tx_counts # <<>> THEN tx_counts[Len(tx_counts)] ELSE 0)

\* A query was served by a database whose recovery is over: its batch is
\* committed, nothing of it is pending.
QueryAfterRecovery ==
    ret.op \in QueryOps =>
        /\ pc = "ready"
        /\ pre.active
        /\ batch = <<>>
        /\ todo = <<>>
        /\ FullyRecovered

\* Recovery starts in construction only, the database becomes ready by
\* the commit of recovery's batch only, and a ready database does not
\* recover again: it stays ready, fails or is closed.
RecoveryOnce ==
    /\ (pc' = "batch" /\ pc # "batch") => (pc = "closed" /\ ret'.op = "init")
    /\ (pc' = "commit" /\ pc # "commit") => pc = "batch"
    /\ (pc' = "ready" /\ pc # "ready") =>
           (pc = "commit" /\ kv' = ApplyBatch(kv, batch))
    /\ pc = "ready" => (pc' \in {"ready", "failed", "closed"} /\ pre' = pre)
    /\ ret'.op \in QueryOps => (pc = "ready" /\ pc' = "ready")

\* C18: clean_db runs once per open, in construction, after the state
\* record and the tx counts were loaded, and its batch is committed before
\* any query (get_history, get_utxos, get_balance, db_hash168,
\* db_utxo_lookup, read_headers, fs_tx_hash) is served.
C18_RecoveryBeforeQueries ==
    /\ [](RecoveryAfterLoad /\ QueryAfterRecovery)
    /\ [][RecoveryOnce]_vars

\* A history was served by a database whose recovery deleted keys.
C18_Witness ==
    /\ pc = "ready"
    /\ ret.op = "get_history"
    /\ pre.active
    /\ Len(pre.plan) >= 1
    /\ kv # pre.kv
    /\ FullyRecovered
    /\ \A i \in DOMAIN pre.plan : pre.plan[i] \notin DOMAIN kv

\* Keys of the UTXO index: owner-lookup records and value records.
IsUtxoIndexKey(k) == HasPrefix(k, PREFIX_hash168) \/ HasPrefix(k, PREFIX_utxo)

\* The keys a store holds with another value, or not at all, than the
\* store before.
ChangedKeys(before, after) ==
    {k \in DOMAIN before \cup DOMAIN after :
        \/ k \notin DOMAIN before
        \/ k \notin DOMAIN after
        \/ before[k] # after[k]}

\* C19: recovery leaves the UTXO index as it is. Whatever the store held
\* at open, every owner-lookup ('h') and value ('u') record is in the store
\* unchanged during and after clean_db; the keys clean_db has planned or
\* batched to delete are history ('H') or undo ('U') keys, the key it puts
\* is 'state', and no other key of the store has changed.
C19_UtxoIndexUntouched ==
    (pre.active /\ Opened) =>
        /\ \A k \in DOMAIN pre.kv :
               IsUtxoIndexKey(k) => (k \in DOMAIN kv /\ kv[k] = pre.kv[k])
        /\ \A k \in DOMAIN kv : IsUtxoIndexKey(k) => k \in DOMAIN pre.kv
        /\ \A k \in ChangedKeys(pre.kv, kv) :
               \/ k = STATE_KEY /\ k \in DOMAIN kv
               \/ (IsHistoryKey(k) \/ IsUndoKey(k)) /\ k \notin DOMAIN kv
        /\ \A i \in DOMAIN todo : IsHistoryKey(todo[i]) \/ IsUndoKey(todo[i])
        /\ \A i \in DOMAIN batch :
               IF batch[i].op = "delete"
               THEN IsHistoryKey(batch[i].key) \/ IsUndoKey(batch[i].key)
               ELSE batch[i].key = STATE_KEY

\* Recovery deleted a key of a store that holds an output in both tables,
\* of a tx number and a height its scans would take for stale: the two
\* records are there as they were.
C19_Witness ==
    /\ pc = "ready"
    /\ pre.active
    /\ Len(pre.plan) >= 1
    /\ \E k \in DOMAIN pre.kv : k \notin DOMAIN kv
    /\ hash168_key(QHash(0), 0, 0) \in DOMAIN kv
    /\ utxo_key(OwnerOf(0), 0, 0) \in DOMAIN kv
    /\ kv[utxo_key(OwnerOf(0), 0, 0)] = pack_le(ValueOf(0, 0), 8)
    /\ kv[hash168_key(QHash(0), 0, 0)] = OwnerOf(0)

\* The cumulative tx count at the on-disk height: the first tx number that
\* is not on disk.
OnDiskCount ==
    IF self.db_height >= 0 THEN tx_counts[self.db_height + 1] ELSE 0

\* tx_counts as loaded, and as it is when the block processor has taken one
\* more block that is not written yet.
CountsAhead == {tx_counts, Append(tx_counts, OnDiskCount + 2)}

\* What fs_tx_hash did is the placeholder of a height above the on-disk
\* height: no exception, no hash, no shard file read.
IsPlaceholder(r) ==
    /\ r.err = "none"
    /\ r.hash = NoneHash
    /\ r.height > self.db_height
    /\ r.reads = {}

\* C20: for a tx number n >= TxCounts[db_height], fs_tx_hash(n) raises
\* nothing and reads no shard file: it returns (None, h) with h > db_height;
\* get_history and get_utxos yield that placeholder as the entry of such a
\* number and raise nothing.
C20_UnflushedPlaceholder ==
    pc = "ready" =>
        /\ \A txc \in CountsAhead, n \in OnDiskCount..(OnDiskCount + 3) :
               /\ IsPlaceholder(fs_tx_hash(n, txc, self.db_height,
                                           hash_files))
               /\ fs_tx_hash(n, txc, self.db_height, hash_files).height
                      = Cardinality({i \in DOMAIN txc : txc[i] <= n})
        /\ \A n \in 0..(OnDiskCount - 1) :
               ~IsPlaceholder(fs_tx_hash_on(n, Fs))
        /\ (ret.op = "fs_tx_hash" /\ ret.tx_num >= OnDiskCount) =>
               IsPlaceholder(ret)
        /\ \A a \in Addrs :
               /\ get_history(a, NoLimit, kv, Fs).err = "none"
               /\ Len(get_history(a, NoLimit, kv, Fs).out)
                      = Len(HistoryOf(a))
               /\ \A i \in 1..Len(HistoryOf(a)) :
                      HistoryOf(a)[i] >= OnDiskCount =>
                          get_history(a, NoLimit, kv, Fs).out[i]
                              = [hash |-> NoneHash,
                                 height |-> self.db_height + 1]
               /\ get_utxos(a, NoLimit, kv, Fs).err = "none"
               /\ Len(get_utxos(a, NoLimit, kv, Fs).out)
                      = Cardinality({k \in DOMAIN kv :
                                       HasPrefix(k, PREFIX_utxo \o a)})
               /\ \A i \in DOMAIN get_utxos(a, NoLimit, kv, Fs).out :
                      LET u == get_utxos(a, NoLimit, kv, Fs).out[i]
                      IN  u.tx_num >= OnDiskCount =>
                              /\ u.tx_hash = NoneHash
                              /\ u.height = self.db_height + 1
                              /\ u.value = ValueOf(u.tx_num, u.tx_pos)

\* The UTXOs of an address were asked for that owns an output of a tx
\* number not on disk and has that number in its history: the output came
\* with no hash and the height above the on-disk height, and so would the
\* history entry.
C20_Witness ==
    /\ pc = "ready"
    /\ ret.op = "get_utxos"
    /\ ret.hash168 = OwnerOf(Unflushed)
    /\ ret.err = "none"
    /\ ret.out = <<[tx_num |-> Unflushed, tx_pos |-> 0, tx_hash |-> NoneHash,
                    height |-> self.db_height + 1,
                    value |-> ValueOf(Unflushed, 0)]>>
    /\ Unflushed >= OnDiskCount
    /\ get_history(OwnerOf(Unflushed), NoLimit, kv, Fs).out
           = <<[hash |-> NoneHash, height |-> self.db_height + 1]>>

\* The first_sync flag the database holds: that of its state record, True
\* for a database that is not there yet.
PersistedFlag ==
    IF db_exists THEN StoredState["first_sync"] ELSE TRUE

MaxOpenFiles(first_sync) == IF first_sync THEN 1024 ELSE 256

\* The positions of the open_db calls among calls.
OpensIn(calls) == {i \in DOMAIN calls : calls[i].call = "open_db"}

\* The calls are rounds of close, open_db, read_state: every open_db is
\* followed by a read_state and, but for the first when no store was open,
\* preceded by a close; the first open_db is with the setting of the
\* argument.
CallsInRounds(calls, first_sync, prev) ==
    /\ calls # <<>>
    /\ prev.open <=> calls[1].call = "close"
    /\ \A i \in DOMAIN calls :
           /\ calls[i].call = "close" =>
                  /\ i + 1 \in DOMAIN calls
                  /\ calls[i + 1].call = "open_db"
           /\ calls[i].call = "open_db" =>
                  /\ i + 1 \in DOMAIN calls
                  /\ calls[i + 1].call = "read_state"
                  /\ IF i = 1 THEN ~prev.open
                     ELSE calls[i - 1].call = "close"
           /\ calls[i].call = "read_state" =>
                  /\ i > 1
                  /\ calls[i - 1].call = "open_db"
                  /\ i + 1 \in DOMAIN calls => calls[i + 1].call = "close"
    /\ \A i \in OpensIn(calls) :
           (\A j \in OpensIn(calls) : i <= j) =>
               calls[i].max_open_files = MaxOpenFiles(first_sync)

\* What reopen_db(first_sync) did, o, on a store handle prev: at most two
\* opens, in rounds; and when it returned, the state read again from the
\* record, a second open exactly when the argument is not the flag the
\* database holds, and the store open with the setting of that flag.
ReopenOutcome(first_sync, prev, o) ==
    /\ o.opens \in 1..2
    /\ o.opens = Cardinality(OpensIn(o.calls))
    /\ CallsInRounds(o.calls, first_sync, prev)
    /\ (db_exists /\ DamagedState) => o.err # "none"
    /\ o.err = "none" =>
           /\ o.db.open
           /\ o.self.first_sync = PersistedFlag
           /\ o.db.max_open_files = MaxOpenFiles(PersistedFlag)
           /\ o.opens = 2 <=> first_sync # PersistedFlag
           /\ \A i \in OpensIn(o.calls) :
                  (\A j \in OpensIn(o.calls) : j <= i) =>
                      o.calls[i].max_open_files = o.db.max_open_files
           /\ db_exists =>
                  /\ ~o.db.is_new
                  /\ o.self.db_height = StoredState["height"]
                  /\ o.self.db_tx_count = StoredState["tx_count"]
                  /\ o.self.flush_count = StoredState["flush_count"]
                  /\ o.self.utxo_flush_count
                         = StoredState["utxo_flush_count"]
                  /\ o.self.db_version \in DB_VERSIONS

\* C21: reopen_db(first_sync) terminates for either argument and either
\* persisted flag. It opens the store at most twice, a second time exactly
\* when the argument differs from the persisted flag; it closes the store
\* that is open before each open; it reads and validates the state record
\* after each open; and it ends with the store opened with the
\* max_open_files of the persisted flag. Construction calls it with True
\* and no store open; on the open database it is called with either value.
C21_ReopenTerminates ==
    /\ pc = "closed" =>
           ReopenOutcome(TRUE, db, reopen_db(db_exists, self, kv, TRUE, db))
    /\ pc = "ready" =>
           \A first_sync \in BOOLEAN :
               ReopenOutcome(first_sync, db,
                             reopen_db(db_exists, self, kv, first_sync, db))
    /\ ret.op = "reopen_db" =>
           /\ ret.opens \in 1..2
           /\ CallsInRounds(ret.calls, ret.first_sync, [open |-> TRUE])
           /\ pc = "ready" =>
                  /\ db.open
                  /\ db.max_open_files = MaxOpenFiles(PersistedFlag)
                  /\ self.first_sync = PersistedFlag
                  /\ ret.opens = 2 <=> ret.first_sync # PersistedFlag

\* The open database, which holds that it is not in its first sync, was
\* reopened for a first sync: the store was closed and opened for 1024
\* files, the state read, and the store closed and opened again for 256.
C21_Witness ==
    /\ pc = "ready"
    /\ ret.op = "reopen_db"
    /\ ret.first_sync
    /\ ~PersistedFlag
    /\ ret.opens = 2
    /\ ret.calls = <<StoreCall("close", 0), StoreCall("open_db", 1024),
                     StoreCall("read_state", 0), StoreCall("close", 0),
                     StoreCall("open_db", 256), StoreCall("read_state", 0)>>
    /\ db.max_open_files = 256
====
